---- MODULE Spec2Model ----
(***************************************************************************)
(* A model of the validator engine of implementing-zod: schema objects on  *)
(* a heap (ZodString, ZodNumber, ZodEnum, ZodOptional, ZodNullable,        *)
(* ZodArray, ZodObject), the builder calls that derive schemas, and the    *)
(* validation operations safeParse / parse.                                *)
(*                                                                         *)
(* The most complete snapshot of the engine is the one at lines 804-1789   *)
(* of src/src/types.test.ts; src/src/types.ts holds the same code up to    *)
(* ZodNullable.  src/unnamed/part_001 is floatSafeRemainder.               *)
(***************************************************************************)
EXTENDS Integers, Sequences, FiniteSets, TLC

VARIABLES heap, lists, shapes, last

vars == <<heap, lists, shapes, last>>

(***************************************************************************)
(* Bounds of the model.                                                    *)
(***************************************************************************)
MaxSchemas == 3

-----------------------------------------------------------------------------
(***************************************************************************)
(* JavaScript numbers.  A finite number is big * 2^53 + m / 10^d with      *)
(* |m / 10^d| < 2^53, kept normalised (d = 0 or m not a multiple of 10),   *)
(* so that equal numbers are equal records.                                *)
(***************************************************************************)
NaN == [k |-> "nan"]
Infinity == [k |-> "inf", neg |-> FALSE]
NegInfinity == [k |-> "inf", neg |-> TRUE]
Fin(big, m, d) == [k |-> "fin", big |-> big, m |-> m, d |-> d]
Whole(i) == Fin(0, i, 0)
Dec(m, d) == Fin(0, m, d)
MAX_SAFE_INTEGER == Fin(1, -1, 0)
MIN_SAFE_INTEGER == Fin(-1, 1, 0)

RECURSIVE Pow10(_)
Pow10(d) == IF d = 0 THEN 1 ELSE 10 * Pow10(d - 1)

\* x < y on numbers: false as soon as one side is NaN
NumLt(x, y) ==
  IF x.k = "nan" \/ y.k = "nan" THEN FALSE
  ELSE IF x.k = "inf" THEN x.neg /\ y # NegInfinity
  ELSE IF y.k = "inf" THEN ~y.neg
  ELSE \/ x.big < y.big
       \/ x.big = y.big /\ x.m * Pow10(y.d) < y.m * Pow10(x.d)

\* x <= y on numbers
NumLe(x, y) ==
  IF x.k = "nan" \/ y.k = "nan" THEN FALSE ELSE NumLt(x, y) \/ x = y

NumGt(x, y) == NumLt(y, x)
NumGe(x, y) == NumLe(y, x)

RECURSIVE Digits(_, _)
\* the last w decimal digits of n, zero padded
Digits(n, w) ==
  IF w = 0 THEN "" ELSE Digits(n \div 10, w - 1) \o ToString(n % 10)

Abs(i) == IF i < 0 THEN 0 - i ELSE i

\* 2^53 + k in decimal, for small k
BigStr(k) == "9007199" \o Digits(254740992 + k, 9)

\* Number.prototype.toString
NumStr(n) ==
  IF n.k = "nan" THEN "NaN"
  ELSE IF n.k = "inf" THEN (IF n.neg THEN "-Infinity" ELSE "Infinity")
  ELSE IF n.big = 1 THEN BigStr(n.m)
  ELSE IF n.big = -1 THEN "-" \o BigStr(0 - n.m)
  ELSE IF n.d = 0 THEN ToString(n.m)
  ELSE (IF n.m < 0 THEN "-" ELSE "")
         \o ToString(Abs(n.m) \div Pow10(n.d)) \o "."
         \o Digits(Abs(n.m) % Pow10(n.d), n.d)

-----------------------------------------------------------------------------
(***************************************************************************)
(* JavaScript values.  A string is a TLA+ string; an array is a sequence   *)
(* of values; a plain object is the sequence of its own enumerable         *)
(* properties in enumeration order.                                        *)
(***************************************************************************)
Undefined == [t |-> "undefined"]
Null == [t |-> "null"]
Bool(b) == [t |-> "boolean", b |-> b]
Str(s) == [t |-> "string", s |-> s]
Num(n) == [t |-> "number", n |-> n]
Sym == [t |-> "symbol"]
Fn == [t |-> "function"]
Arr(items) == [t |-> "array", items |-> items]
Obj(fields) == [t |-> "object", fields |-> fields]
Prop(key, val) == [key |-> key, val |-> val]
PromiseV == [t |-> "promise"]
RegExpV == [t |-> "regexp"]
DateV == [t |-> "date"]
SetV == [t |-> "set"]
MapV == [t |-> "map"]

\* the typeof operator
typeOf(v) ==
  IF v.t \in {"undefined", "boolean", "string", "number", "symbol", "function"}
  THEN v.t ELSE "object"

\* the property names every object inherits from Object.prototype
ObjectPrototypeKeys ==
  {"constructor", "toString", "valueOf", "hasOwnProperty", "isPrototypeOf",
   "propertyIsEnumerable", "toLocaleString", "__proto__"}

Keys(fields) == [i \in 1..Len(fields) |-> fields[i].key]
KeySet(fields) == {fields[i].key : i \in 1..Len(fields)}
Includes(seq, x) == \E i \in 1..Len(seq) : seq[i] = x
HasOwn(fields, key) == key \in KeySet(fields)
Get(fields, key) == (CHOOSE i \in 1..Len(fields) : fields[i].key = key)

\* obj[key] = val on a plain object: overwrite in place or append
SetProp(fields, key, val) ==
  IF HasOwn(fields, key)
  THEN [i \in 1..Len(fields) |->
          IF fields[i].key = key THEN Prop(key, val) ELSE fields[i]]
  ELSE Append(fields, Prop(key, val))

\* key in data, for a plain object or one of the built-in object kinds
HasProperty(data, key) ==
  \/ data.t = "object" /\ HasOwn(data.fields, key)
  \/ key \in ObjectPrototypeKeys
  \/ data.t = "promise" /\ key \in {"then", "catch", "finally"}

\* typeof data[key] === "function"
IsCallableProperty(data, key) ==
  \/ data.t = "object" /\ HasOwn(data.fields, key)
       /\ data.fields[Get(data.fields, key)].val = Fn
  \/ ~(data.t = "object" /\ HasOwn(data.fields, key))
       /\ key \in ObjectPrototypeKeys \ {"__proto__"}
  \/ data.t = "promise" /\ key \in {"then", "catch", "finally"}

RECURSIVE CanStr(_)
\* whether `${v}` yields a string; otherwise it throws a TypeError
CanStr(v) ==
  CASE v.t = "symbol" -> FALSE
    [] v.t = "array" ->
         \A i \in 1..Len(v.items) :
           v.items[i] \in {Undefined, Null} \/ CanStr(v.items[i])
    [] v.t = "object" ->
         \/ ~HasOwn(v.fields, "toString")
         \/ v.fields[Get(v.fields, "toString")].val = Fn
    [] OTHER -> TRUE

RECURSIVE ToStr(_)
RECURSIVE JoinItems(_, _)
\* Array.prototype.join(","): null and undefined give the empty string
JoinItems(items, i) ==
  IF i > Len(items) THEN ""
  ELSE (IF i > 1 THEN "," ELSE "")
         \o (IF items[i] \in {Undefined, Null} THEN "" ELSE ToStr(items[i]))
         \o JoinItems(items, i + 1)

\* `${v}` where CanStr(v); the opaque function value Fn is () => {}
ToStr(v) ==
  CASE v.t = "undefined" -> "undefined"
    [] v.t = "null" -> "null"
    [] v.t = "boolean" -> (IF v.b THEN "true" ELSE "false")
    [] v.t = "string" -> v.s
    [] v.t = "number" -> NumStr(v.n)
    [] v.t = "function" -> "() => {}"
    [] v.t = "array" -> JoinItems(v.items, 1)
    [] v.t = "object" ->
         (IF HasOwn(v.fields, "toString") THEN "undefined"
          ELSE "[object Object]")
    [] v.t = "promise" -> "[object Promise]"
    [] v.t = "regexp" -> "/123/"
    [] v.t = "date" -> "Thu Jan 01 1970 00:00:00 GMT+0000"
    [] v.t = "set" -> "[object Set]"
    [] v.t = "map" -> "[object Map]"

IsSpace(c) == c \in {" ", "\t", "\n", "\r"}

RECURSIVE TrimStart(_)
TrimStart(s) ==
  IF Len(s) > 0 /\ IsSpace(SubSeq(s, 1, 1))
  THEN TrimStart(SubSeq(s, 2, Len(s))) ELSE s

RECURSIVE TrimEnd(_)
TrimEnd(s) ==
  IF Len(s) > 0 /\ IsSpace(SubSeq(s, Len(s), Len(s)))
  THEN TrimEnd(SubSeq(s, 1, Len(s) - 1)) ELSE s

\* a trim that leaves the whitespace at the end
Trim_StartOnly(s) == TrimStart(s)

\* String.prototype.trim
Trim(s) == TrimEnd(TrimStart(s))

-----------------------------------------------------------------------------
(***************************************************************************)
(* Results of _parse.  A reason and a check's message are optional: <<>>   *)
(* is undefined, <<s>> is the string s.  A TypeError raised while a        *)
(* validator runs is the third outcome.                                    *)
(***************************************************************************)
Valid(data) == [isValid |-> TRUE, data |-> data]
Invalid(reason) == [isValid |-> FALSE, reason |-> <<reason>>]
InvalidOpt(reason) == [isValid |-> FALSE, reason |-> reason]
TypeError == [threw |-> "TypeError"]
Threw(r) == "threw" \in DOMAIN r

\* check.message ?? text
OrElse(message, text) == IF message # <<>> THEN message[1] ELSE text

\* an invalid result whose reason is `${data}${suffix}`
InvalidData(data, suffix) ==
  IF CanStr(data) THEN Invalid(ToStr(data) \o suffix) ELSE TypeError

-----------------------------------------------------------------------------
(***************************************************************************)
(* ZodString                                                               *)
(***************************************************************************)
Ch(s, i) == SubSeq(s, i, i)

Lower == {"a", "b", "c", "d", "e", "f", "g", "h", "i", "j", "k", "l", "m",
          "n", "o", "p", "q", "r", "s", "t", "u", "v", "w", "x", "y", "z"}
Upper == {"A", "B", "C", "D", "E", "F", "G", "H", "I", "J", "K", "L", "M",
          "N", "O", "P", "Q", "R", "S", "T", "U", "V", "W", "X", "Y", "Z"}
Digit == {"0", "1", "2", "3", "4", "5", "6", "7", "8", "9"}
Letter == Lower \cup Upper
AlNum == Letter \cup Digit

\* ([A-Z0-9][A-Z0-9\-]*\.)+ matches the whole of x
EmailLabels(x) ==
  /\ Len(x) > 0
  /\ Ch(x, Len(x)) = "."
  /\ \A i \in 1..Len(x) :
       /\ Ch(x, i) \in AlNum \cup {"-", "."}
       /\ (i = 1 \/ Ch(x, i - 1) = ".") => Ch(x, i) \in AlNum

\* ([A-Z0-9][A-Z0-9\-]*\.)+[A-Z]{2,} matches the whole of d
EmailDomain(d) ==
  \E p \in 1..Len(d) :
    /\ Ch(d, p) = "."
    /\ Len(d) - p >= 2
    /\ \A i \in (p + 1)..Len(d) : Ch(d, i) \in Letter
    /\ EmailLabels(SubSeq(d, 1, p))

\* ([A-Z0-9_+-\.]*)[A-Z0-9_+-] matches the whole of l; in the first class
\* +-\. is the range from "+" to ".", which holds "," as well
EmailLocal(l) ==
  /\ Len(l) > 0
  /\ \A i \in 1..Len(l) : Ch(l, i) \in AlNum \cup {"_", "+", ",", "-", "."}
  /\ Ch(l, Len(l)) \in AlNum \cup {"_", "+", "-"}

\* emailRegex.test(data)
EmailTest(data) ==
  /\ Len(data) > 0 => Ch(data, 1) # "."
  /\ \A i \in 1..(Len(data) - 1) : ~(Ch(data, i) = "." /\ Ch(data, i + 1) = ".")
  /\ \E a \in 1..Len(data) :
       /\ Ch(data, a) = "@"
       /\ EmailLocal(SubSeq(data, 1, a - 1))
       /\ EmailDomain(SubSeq(data, a + 1, Len(data)))

\* check.regex.test(data) for the regular expressions /^prefix/
RegExpTest(regex, data) ==
  /\ Len(data) >= Len(regex.prefix)
  /\ SubSeq(data, 1, Len(regex.prefix)) = regex.prefix

RECURSIVE StringChecks(_, _, _)
\* the loop over this._def.checks, from the i-th check on
StringChecks(checks, i, data) ==
  IF i > Len(checks) THEN Valid(Str(data))
  ELSE LET check == checks[i] IN
    CASE check.kind = "min" ->
           IF NumLt(Whole(Len(data)), check.value)
           THEN Invalid(OrElse(check.message,
                  data \o " should be at least " \o NumStr(check.value)
                       \o " characters"))
           ELSE StringChecks(checks, i + 1, data)
      [] check.kind = "max" ->
           IF NumGt(Whole(Len(data)), check.value)
           THEN Invalid(OrElse(check.message,
                  data \o " should be " \o NumStr(check.value)
                       \o " characters or fewer"))
           ELSE StringChecks(checks, i + 1, data)
      [] check.kind = "length" ->
           IF Whole(Len(data)) # check.value
           THEN Invalid(OrElse(check.message,
                  data \o " should be " \o NumStr(check.value)
                       \o " characters"))
           ELSE StringChecks(checks, i + 1, data)
      [] check.kind = "email" ->
           IF ~EmailTest(data)
           THEN Invalid(OrElse(check.message, "invalid email"))
           ELSE StringChecks(checks, i + 1, data)
      [] check.kind = "regex" ->
           IF ~RegExpTest(check.regex, data)
           THEN Invalid(OrElse(check.message,
                  data \o " does not satisfies given regex"))
           ELSE StringChecks(checks, i + 1, data)
      [] check.kind = "trim" -> Valid(Str(Trim(data)))

\* a _parse that runs the checks from the last appended to the first
ZodString_parse_Reversed(checks, data) ==
  IF typeOf(data) # "string" THEN InvalidData(data, " is not a string")
  ELSE StringChecks([i \in 1..Len(checks) |-> checks[Len(checks) + 1 - i]],
                    1, data.s)

ZodString_parse(checks, data) ==
  IF typeOf(data) # "string" THEN InvalidData(data, " is not a string")
  ELSE StringChecks(checks, 1, data.s)

-----------------------------------------------------------------------------
(***************************************************************************)
(* ZodNumber                                                               *)
(***************************************************************************)
RECURSIVE Norm(_, _)
\* the normalised number m / 10^d
Norm(m, d) ==
  IF d > 0 /\ m % 10 = 0 THEN Norm(m \div 10, d - 1) ELSE Fin(0, m, d)

\* (val.toString().split(".")[1] || "").length
DecCount(val) == IF val.k = "fin" THEN val.d ELSE 0

RECURSIVE Pow2Mod(_, _)
\* 2^e modulo s
Pow2Mod(e, s) == IF e = 0 THEN 1 % s ELSE (2 * Pow2Mod(e - 1, s)) % s

\* a % b of JavaScript on integers, b # 0: the sign is the dividend's
JsRem(a, b) == IF a < 0 THEN 0 - (Abs(a) % Abs(b)) ELSE a % Abs(b)

\* floatSafeRemainder.  parseInt of "NaN" and of "Infinity" is NaN, and a
\* remainder by 0 is NaN.  Numbers of magnitude 2^53 - 1 and more are
\* covered for whole steps only, where the scaled integers are exact.
floatSafeRemainder(val, step) ==
  LET decCount == IF DecCount(val) > DecCount(step)
                  THEN DecCount(val) ELSE DecCount(step)
  IN CASE val.k # "fin" \/ step.k # "fin" -> NaN
       [] val.k = "fin" /\ step.k = "fin" /\ val.big = 0 /\ step.big = 0 ->
            LET valInt == val.m * Pow10(decCount - val.d)
                stepInt == step.m * Pow10(decCount - step.d)
            IN IF stepInt = 0 THEN NaN
               ELSE Norm(JsRem(valInt, stepInt), decCount)
       [] val.k = "fin" /\ step.k = "fin" /\ val.big # 0 /\ step.big = 0
            /\ decCount = 0 ->
            IF step.m = 0 THEN NaN
            ELSE LET s == Abs(step.m)
                     r == (Pow2Mod(53, s) + val.big * val.m) % s
                 IN Whole(val.big * r)

\* if (x) on a number: 0 and NaN are falsy
Truthy(n) == n.k # "nan" /\ n # Whole(0)

\* Number.isInteger
IsInteger(n) == n.k = "fin" /\ n.d = 0

\* Number.isFinite
IsFinite(n) == n.k = "fin"

RECURSIVE NumberChecks(_, _, _)
\* the loop over this._def.checks, from the i-th check on
NumberChecks(checks, i, data) ==
  IF i > Len(checks) THEN Valid(Num(data))
  ELSE LET check == checks[i] IN
    CASE check.kind = "min" ->
           IF check.isInclusive
           THEN IF NumLt(data, check.value)
                THEN Invalid(OrElse(check.message,
                       NumStr(data) \o " should be greater than or equal to "
                                    \o NumStr(check.value)))
                ELSE NumberChecks(checks, i + 1, data)
           ELSE IF NumLe(data, check.value)
                THEN Invalid(OrElse(check.message,
                       NumStr(data) \o " should be greater than "
                                    \o NumStr(check.value)))
                ELSE NumberChecks(checks, i + 1, data)
      [] check.kind = "max" ->
           IF check.isInclusive
           THEN IF NumGt(data, check.value)
                THEN Invalid(OrElse(check.message,
                       NumStr(data) \o " should be less than or equal to "
                                    \o NumStr(check.value)))
                ELSE NumberChecks(checks, i + 1, data)
           ELSE IF NumGe(data, check.value)
                THEN Invalid(OrElse(check.message,
                       NumStr(data) \o " should be less than "
                                    \o NumStr(check.value)))
                ELSE NumberChecks(checks, i + 1, data)
      [] check.kind = "int" ->
           IF ~IsInteger(data)
           THEN Invalid(OrElse(check.message,
                  NumStr(data) \o " is not an integer"))
           ELSE NumberChecks(checks, i + 1, data)
      [] check.kind = "multipleOf" ->
           IF Truthy(floatSafeRemainder(data, check.value))
           THEN Invalid(OrElse(check.message,
                  NumStr(data) \o " should be multiple of "
                               \o NumStr(check.value)))
           ELSE NumberChecks(checks, i + 1, data)
      [] check.kind = "finite" ->
           IF ~IsFinite(data)
           THEN Invalid(OrElse(check.message,
                  NumStr(data) \o " is not a finite number"))
           ELSE NumberChecks(checks, i + 1, data)

ZodNumber_parse(checks, data) ==
  IF typeOf(data) # "number" THEN InvalidData(data, " is not a number")
  ELSE NumberChecks(checks, 1, data.n)

-----------------------------------------------------------------------------
(***************************************************************************)
(* ZodEnum                                                                 *)
(***************************************************************************)
\* an Enum that compares the text of the value and not the value
ZodEnum_parse_Loose(values, data) ==
  IF CanStr(data) /\ Includes(values, ToStr(data)) THEN Valid(data)
  ELSE InvalidData(data, " should be string")

ZodEnum_parse(values, data) ==
  IF typeOf(data) # "string" THEN InvalidData(data, " should be string")
  ELSE IF Includes(values, data.s) THEN Valid(data)
  ELSE Invalid(data.s \o " is not a tuple member of "
                 \o JoinItems([i \in 1..Len(values) |-> Str(values[i])], 1))

-----------------------------------------------------------------------------
(***************************************************************************)
(* The store: heap[h] is the _def of schema handle h together with its     *)
(* class (kind); a check list and a shape are objects of their own,        *)
(* lists[l] and shapes[s], because several schemas can hold the same one.  *)
(***************************************************************************)
Store == [heap |-> heap, lists |-> lists, shapes |-> shapes]

RECURSIVE ZodType_parse(_, _, _)

-----------------------------------------------------------------------------
(***************************************************************************)
(* ZodOptional, ZodNullable                                                *)
(***************************************************************************)
\* an Optional that takes null for absent as well
ZodOptional_parse_NullToo(st, def, data) ==
  IF typeOf(data) = "undefined" \/ data = Null THEN Valid(data)
  ELSE ZodType_parse(st, def.innerType, data)

\* an Optional that returns the value it was given, not the inner data
ZodOptional_parse_InputBack(st, def, data) ==
  IF typeOf(data) = "undefined" THEN Valid(data)
  ELSE LET result == ZodType_parse(st, def.innerType, data)
       IN IF Threw(result) \/ ~result.isValid THEN result ELSE Valid(data)

ZodOptional_parse(st, def, data) ==
  IF typeOf(data) = "undefined" THEN Valid(data)
  ELSE ZodType_parse(st, def.innerType, data)

ZodNullable_parse(st, def, data) ==
  IF data = Null THEN Valid(data)
  ELSE ZodType_parse(st, def.innerType, data)

-----------------------------------------------------------------------------
(***************************************************************************)
(* ZodArray                                                                *)
(***************************************************************************)
RECURSIVE ArrayElements(_, _, _, _)
\* the loop over the items, from the i-th on
ArrayElements(st, element, data, i) ==
  IF i > Len(data.items) THEN Valid(data)
  ELSE LET result == ZodType_parse(st, element, data.items[i])
       IN IF Threw(result) THEN result
          ELSE IF ~result.isValid THEN InvalidOpt(result.reason)
          ELSE ArrayElements(st, element, data, i + 1)

RECURSIVE ArrayChecks(_, _, _, _)
\* the loop over this._def.checks, from the i-th check on, and what follows
ArrayChecks(st, def, i, data) ==
  LET checks == st.lists[def.checks] IN
  IF i > Len(checks) THEN ArrayElements(st, def.element, data, 1)
  ELSE LET check == checks[i] IN
    CASE check.kind = "min" ->
           IF NumLt(Whole(Len(data.items)), check.value)
           THEN InvalidData(data, "'s length should be greater or equal to "
                                    \o NumStr(check.value))
           ELSE ArrayChecks(st, def, i + 1, data)
      [] check.kind = "max" ->
           IF NumGt(Whole(Len(data.items)), check.value)
           THEN InvalidData(data, "'s length should be less or equal to "
                                    \o NumStr(check.value))
           ELSE ArrayChecks(st, def, i + 1, data)
      [] check.kind = "length" ->
           IF Whole(Len(data.items)) # check.value
           THEN InvalidData(data, "'s length should be " \o NumStr(check.value))
           ELSE ArrayChecks(st, def, i + 1, data)

ZodArray_parse(st, def, data) ==
  IF data.t # "array" THEN InvalidData(data, " is not an array")
  ELSE IF def.nonempty /\ Len(data.items) = 0
  THEN InvalidData(data, " should be non empty")
  ELSE ArrayChecks(st, def, 1, data)

-----------------------------------------------------------------------------
(***************************************************************************)
(* ZodObject                                                               *)
(***************************************************************************)
\* a collection of the extra keys that stops at the first one
ExtraKeys_FirstOnly(shapeKeys, fields) ==
  LET all == SelectSeq(Keys(fields), LAMBDA key : ~Includes(shapeKeys, key))
  IN IF all = <<>> THEN <<>> ELSE <<all[1]>>

\* the keys of data that shapeKeys does not include, in data's order
ExtraKeys(shapeKeys, fields) ==
  SelectSeq(Keys(fields), LAMBDA key : ~Includes(shapeKeys, key))

RECURSIVE JoinKeys(_, _)
\* extraKeys.join(", ")
JoinKeys(keys, i) ==
  IF i > Len(keys) THEN ""
  ELSE (IF i > 1 THEN ", " ELSE "") \o keys[i] \o JoinKeys(keys, i + 1)

\* reshapedData: under strip the properties whose key is not extra, else
\* all.  The copy is the assignment reshapedData[key] = data[key]: for the
\* key "__proto__" it runs the setter reshapedData inherits, which creates no
\* property and, given a primitive, leaves the object as it is.
Reshape(extraKeyStrategy, extraKeys, fields) ==
  LET copied == IF extraKeyStrategy = "strip"
                THEN SelectSeq(fields, LAMBDA f : ~Includes(extraKeys, f.key))
                ELSE fields
  IN SelectSeq(copied, LAMBDA f : f.key # "__proto__")

RECURSIVE ObjectFields(_, _, _, _)
\* the loop over the keys of reshapedData, from the i-th on.  shape[key] of
\* a key that is not shape's own is undefined, unless Object.prototype has
\* the key: then it is an object with no _parse, and the call throws.
ObjectFields(st, shape, reshapedData, i) ==
  IF i > Len(reshapedData) THEN Valid(Obj(reshapedData))
  ELSE LET key == reshapedData[i].key IN
    IF HasOwn(shape, key)
    THEN LET result == ZodType_parse(st, shape[Get(shape, key)].val,
                                     reshapedData[i].val)
         IN IF Threw(result) THEN result
            ELSE IF ~result.isValid THEN InvalidOpt(result.reason)
            ELSE ObjectFields(st, shape, reshapedData, i + 1)
    ELSE IF key \in ObjectPrototypeKeys THEN TypeError
    ELSE ObjectFields(st, shape, reshapedData, i + 1)

\* the first shape key the missing-field loop stops at, 0 if there is none
FirstMissing(shapeKeys, data) ==
  LET missing == {i \in 1..Len(shapeKeys) :
                    shapeKeys[i] # "" /\ ~HasProperty(data, shapeKeys[i])}
  IN IF missing = {} THEN 0
     ELSE CHOOSE i \in missing : \A j \in missing : i <= j

\* a reconciliation that validates the fields in the order of the shape
ObjectReconcile_ShapeOrder(st, def, data) ==
  LET shape == st.shapes[def.shape]
      shapeKeys == Keys(shape)
      miss == FirstMissing(shapeKeys, data)
      extraKeys == ExtraKeys(shapeKeys, data.fields)
      reshapedData == Reshape(def.extraKeyStrategy, extraKeys, data.fields)
      declared == SelectSeq(shape, LAMBDA f : HasOwn(reshapedData, f.key))
      inShapeOrder == [i \in 1..Len(declared) |->
                         reshapedData[Get(reshapedData, declared[i].key)]]
  IN IF miss # 0
     THEN IF HasOwn(shape, "toString") \/ ~CanStr(data) THEN TypeError
          ELSE Invalid(shapeKeys[miss] \o " is in [object Object], but not in "
                         \o ToStr(data))
     ELSE IF Len(extraKeys) > 0 /\ def.extraKeyStrategy = "strict"
     THEN Invalid("extra key(s) found: " \o JoinKeys(extraKeys, 1))
     ELSE ObjectFields(st, shape,
            inShapeOrder \o SelectSeq(reshapedData,
                                      LAMBDA f : ~HasOwn(shape, f.key)), 1)

\* _parse once the type gates are passed: data is a plain object
ObjectReconcile(st, def, data) ==
  LET shape == st.shapes[def.shape]
      shapeKeys == Keys(shape)
      miss == FirstMissing(shapeKeys, data)
      extraKeys == ExtraKeys(shapeKeys, data.fields)
  IN IF miss # 0
     THEN \* `${shapeKey} is in ${this._def.shape}, but not in ${data}`
          IF HasOwn(shape, "toString") \/ ~CanStr(data) THEN TypeError
          ELSE Invalid(shapeKeys[miss] \o " is in [object Object], but not in "
                         \o ToStr(data))
     ELSE IF Len(extraKeys) > 0 /\ def.extraKeyStrategy = "strict"
     THEN Invalid("extra key(s) found: " \o JoinKeys(extraKeys, 1))
     ELSE ObjectFields(st, shape,
            Reshape(def.extraKeyStrategy, extraKeys, data.fields), 1)

ZodObject_parse(st, def, data) ==
  IF typeOf(data) = "object"
  THEN IF data = Null THEN InvalidData(data, " is null")
       ELSE IF data.t = "array" THEN InvalidData(data, " is an array")
       ELSE IF /\ HasProperty(data, "then") /\ IsCallableProperty(data, "then")
               /\ HasProperty(data, "catch") /\ IsCallableProperty(data, "catch")
       THEN InvalidData(data, " is promise")
       ELSE IF data.t = "regexp" THEN InvalidData(data, " is a regex")
       ELSE IF data.t = "date" THEN InvalidData(data, " is an date")
       ELSE IF data.t = "set" THEN InvalidData(data, " is an set")
       ELSE IF data.t = "map" THEN InvalidData(data, " is an map")
       ELSE ObjectReconcile(st, def, data)
  ELSE InvalidData(data, " is not an object")

-----------------------------------------------------------------------------
(***************************************************************************)
(* ZodType: _parse by the class of the schema, safeParse, parse            *)
(***************************************************************************)
ZodType_parse(st, h, data) ==
  LET def == st.heap[h] IN
  CASE def.kind = "ZodString" -> ZodString_parse(st.lists[def.checks], data)
    [] def.kind = "ZodNumber" -> ZodNumber_parse(st.lists[def.checks], data)
    [] def.kind = "ZodEnum" -> ZodEnum_parse(def.values, data)
    [] def.kind = "ZodOptional" -> ZodOptional_parse(st, def, data)
    [] def.kind = "ZodNullable" -> ZodNullable_parse(st, def, data)
    [] def.kind = "ZodArray" -> ZodArray_parse(st, def, data)
    [] def.kind = "ZodObject" -> ZodObject_parse(st, def, data)

\* the Error object is its message
safeParse(st, h, data) ==
  LET result == ZodType_parse(st, h, data) IN
  IF Threw(result) THEN result
  ELSE IF result.isValid THEN [success |-> TRUE, data |-> result.data]
  ELSE [success |-> FALSE,
        error |-> IF result.reason # <<>> THEN result.reason[1]
                  ELSE "data is invalid"]

\* what parse returns, or what it throws
parse(st, h, data) ==
  LET result == safeParse(st, h, data) IN
  IF Threw(result) THEN result
  ELSE IF result.success THEN [returned |-> result.data]
  ELSE [threw |-> "Error", error |-> result.error]

-----------------------------------------------------------------------------
(***************************************************************************)
(* The state after loading the module: no schema exists.  last records the *)
(* latest call of the interface: its receiver recv, the handle ret it      *)
(* returned and, for safeParse and parse, the value, the outcome and the   *)
(* lines written to the console.                                           *)
(***************************************************************************)
Init ==
  /\ heap = <<>>
  /\ lists = <<>>
  /\ shapes = <<>>
  /\ last = [op |-> "init", recv |-> 0, ret |-> 0]

Handles == 1..Len(heap)
OfKind(kind) == {h \in Handles : heap[h].kind = kind}
Returned(op, recv) == [op |-> op, recv |-> recv, ret |-> Len(heap) + 1]

\* new C(def), returned from the call op on recv
New(def, op, recv) ==
  /\ heap' = Append(heap, def)
  /\ last' = Returned(op, recv)

-----------------------------------------------------------------------------
(***************************************************************************)
(* ZodString: create and the builder calls                                 *)
(***************************************************************************)
ZodString_create ==
  /\ lists' = Append(lists, <<>>)
  /\ New([kind |-> "ZodString", checks |-> Len(lists) + 1], "string", 0)
  /\ UNCHANGED shapes

\* this._def.checks.push(check); return new ZodString({checks: this._def.checks})
ZodString_addCheck(h, check, op) ==
  /\ heap[h].kind = "ZodString"
  /\ lists' = [lists EXCEPT ![heap[h].checks] = Append(@, check)]
  /\ New([kind |-> "ZodString", checks |-> heap[h].checks], op, h)
  /\ UNCHANGED shapes

ZodString_min(h, minLength, message) ==
  ZodString_addCheck(h,
    [kind |-> "min", value |-> minLength, message |-> message], "min")

ZodString_max(h, maxLength, message) ==
  ZodString_addCheck(h,
    [kind |-> "max", value |-> maxLength, message |-> message], "max")

ZodString_length(h, length, message) ==
  ZodString_addCheck(h,
    [kind |-> "length", value |-> length, message |-> message], "length")

ZodString_email(h, message) ==
  ZodString_addCheck(h, [kind |-> "email", message |-> message], "email")

ZodString_regex(h, regex, message) ==
  ZodString_addCheck(h,
    [kind |-> "regex", regex |-> regex, message |-> message], "regex")

ZodString_trim(h, message) ==
  ZodString_addCheck(h, [kind |-> "trim", message |-> message], "trim")

-----------------------------------------------------------------------------
(***************************************************************************)
(* ZodNumber: create and the builder calls                                 *)
(***************************************************************************)
ZodNumber_create ==
  /\ lists' = Append(lists, <<>>)
  /\ New([kind |-> "ZodNumber", checks |-> Len(lists) + 1], "number", 0)
  /\ UNCHANGED shapes

\* this._def.checks.push(check); return new ZodNumber({checks: this._def.checks})
ZodNumber_addCheck(h, check, op) ==
  /\ heap[h].kind = "ZodNumber"
  /\ lists' = [lists EXCEPT ![heap[h].checks] = Append(@, check)]
  /\ New([kind |-> "ZodNumber", checks |-> heap[h].checks], op, h)
  /\ UNCHANGED shapes

MinCheck(value, isInclusive, message) ==
  [kind |-> "min", value |-> value, isInclusive |-> isInclusive,
   message |-> message]

MaxCheck(value, isInclusive, message) ==
  [kind |-> "max", value |-> value, isInclusive |-> isInclusive,
   message |-> message]

ZodNumber_gt(h, value, message) ==
  ZodNumber_addCheck(h, MinCheck(value, FALSE, message), "gt")

ZodNumber_gte(h, value, message) ==
  ZodNumber_addCheck(h, MinCheck(value, TRUE, message), "gte")

ZodNumber_lt(h, value, message) ==
  ZodNumber_addCheck(h, MaxCheck(value, FALSE, message), "lt")

ZodNumber_lte(h, value, message) ==
  ZodNumber_addCheck(h, MaxCheck(value, TRUE, message), "lte")

ZodNumber_int(h, message) ==
  ZodNumber_addCheck(h, [kind |-> "int", message |-> message], "int")

ZodNumber_positive(h, message) ==
  ZodNumber_addCheck(h, MinCheck(Whole(0), FALSE, message), "positive")

ZodNumber_nonnegative(h, message) ==
  ZodNumber_addCheck(h, MinCheck(Whole(0), TRUE, message), "nonnegative")

ZodNumber_negative(h, message) ==
  ZodNumber_addCheck(h, MaxCheck(Whole(0), FALSE, message), "negative")

ZodNumber_nonpositive(h, message) ==
  ZodNumber_addCheck(h, MaxCheck(Whole(0), TRUE, message), "nonpositive")

ZodNumber_multipleOf(h, value, message) ==
  ZodNumber_addCheck(h,
    [kind |-> "multipleOf", value |-> value, message |-> message],
    "multipleOf")

ZodNumber_finite(h, message) ==
  ZodNumber_addCheck(h, [kind |-> "finite", message |-> message], "finite")

\* this._addCheck(min)._addCheck(max): both pushes reach the one list; the
\* schema object made in between is referenced by nobody and gets no handle
ZodNumber_safe(h, message) ==
  /\ heap[h].kind = "ZodNumber"
  /\ lists' = [lists EXCEPT ![heap[h].checks] =
                 @ \o <<MinCheck(MIN_SAFE_INTEGER, TRUE, message),
                        MaxCheck(MAX_SAFE_INTEGER, TRUE, message)>>]
  /\ New([kind |-> "ZodNumber", checks |-> heap[h].checks], "safe", h)
  /\ UNCHANGED shapes

-----------------------------------------------------------------------------
(***************************************************************************)
(* ZodEnum, ZodOptional, ZodNullable: create, the sugar, unwrap            *)
(***************************************************************************)
ZodEnum_create(values) ==
  /\ New([kind |-> "ZodEnum", values |-> values], "enum", 0)
  /\ UNCHANGED <<lists, shapes>>

\* z.optional(innerType)
ZodOptional_create(innerType) ==
  /\ innerType \in Handles
  /\ New([kind |-> "ZodOptional", innerType |-> innerType], "z.optional", 0)
  /\ UNCHANGED <<lists, shapes>>

\* h.optional()
ZodType_optional(h) ==
  /\ h \in Handles
  /\ New([kind |-> "ZodOptional", innerType |-> h], "optional", h)
  /\ UNCHANGED <<lists, shapes>>

\* z.nullable(innerType)
ZodNullable_create(innerType) ==
  /\ innerType \in Handles
  /\ New([kind |-> "ZodNullable", innerType |-> innerType], "z.nullable", 0)
  /\ UNCHANGED <<lists, shapes>>

\* h.nullable()
ZodType_nullable(h) ==
  /\ h \in Handles
  /\ New([kind |-> "ZodNullable", innerType |-> h], "nullable", h)
  /\ UNCHANGED <<lists, shapes>>

\* an unwrap that returns the wrapper
Unwrap_Self(h) ==
  /\ h \in Handles
  /\ heap[h].kind \in {"ZodOptional", "ZodNullable"}
  /\ last' = [op |-> "unwrap", recv |-> h, ret |-> h]
  /\ UNCHANGED <<heap, lists, shapes>>

\* ZodOptional.unwrap and ZodNullable.unwrap
Unwrap(h) ==
  /\ h \in Handles
  /\ heap[h].kind \in {"ZodOptional", "ZodNullable"}
  /\ last' = [op |-> "unwrap", recv |-> h, ret |-> heap[h].innerType]
  /\ UNCHANGED <<heap, lists, shapes>>

-----------------------------------------------------------------------------
(***************************************************************************)
(* ZodArray: create, the sugar and the builder calls                       *)
(***************************************************************************)
\* z.array(element)
ZodArray_create(element) ==
  /\ element \in Handles
  /\ lists' = Append(lists, <<>>)
  /\ New([kind |-> "ZodArray", element |-> element, nonempty |-> FALSE,
          checks |-> Len(lists) + 1], "z.array", 0)
  /\ UNCHANGED shapes

\* h.array()
ZodType_array(h) ==
  /\ h \in Handles
  /\ lists' = Append(lists, <<>>)
  /\ New([kind |-> "ZodArray", element |-> h, nonempty |-> FALSE,
          checks |-> Len(lists) + 1], "array", h)
  /\ UNCHANGED shapes

\* a nonempty() that gives the new schema a copy of the check list
ZodArray_nonempty_OwnList(h) ==
  /\ heap[h].kind = "ZodArray"
  /\ lists' = Append(lists, lists[heap[h].checks])
  /\ New([heap[h] EXCEPT !.nonempty = TRUE, !.checks = Len(lists) + 1],
         "nonempty", h)
  /\ UNCHANGED shapes

\* new ZodArray({...this._def, nonempty: true})
ZodArray_nonempty(h) ==
  /\ heap[h].kind = "ZodArray"
  /\ New([heap[h] EXCEPT !.nonempty = TRUE], "nonempty", h)
  /\ UNCHANGED <<lists, shapes>>

\* this._def.checks.push(check); new ZodArray({...this._def, checks: ...})
ZodArray_addCheck(h, check, op) ==
  /\ heap[h].kind = "ZodArray"
  /\ lists' = [lists EXCEPT ![heap[h].checks] = Append(@, check)]
  /\ New(heap[h], op, h)
  /\ UNCHANGED shapes

ZodArray_min(h, minLength, message) ==
  ZodArray_addCheck(h,
    [kind |-> "min", value |-> minLength, message |-> message], "min")

ZodArray_max(h, maxLength, message) ==
  ZodArray_addCheck(h,
    [kind |-> "max", value |-> maxLength, message |-> message], "max")

ZodArray_length(h, length, message) ==
  ZodArray_addCheck(h,
    [kind |-> "length", value |-> length, message |-> message], "length")

-----------------------------------------------------------------------------
(***************************************************************************)
(* ZodObject: create and the structural combinators.  A shape literal is   *)
(* the sequence of its properties; a mask is the set of the names it sets  *)
(* to true, and an optional mask is <<>> or <<mask>>.                      *)
(***************************************************************************)
ZodObject_create(shape) ==
  /\ \A i \in 1..Len(shape) : shape[i].val \in Handles
  /\ shapes' = Append(shapes, shape)
  /\ New([kind |-> "ZodObject", shape |-> Len(shapes) + 1,
          extraKeyStrategy |-> "strip"], "object", 0)
  /\ UNCHANGED lists

ZodObject_passthrough(h) ==
  /\ heap[h].kind = "ZodObject"
  /\ New([kind |-> "ZodObject", shape |-> heap[h].shape,
          extraKeyStrategy |-> "passthrough"], "passthrough", h)
  /\ UNCHANGED <<lists, shapes>>

\* a strict that turns a strict schema back into a strip one
ZodObject_strict_Toggle(h) ==
  /\ heap[h].kind = "ZodObject"
  /\ New([kind |-> "ZodObject", shape |-> heap[h].shape,
          extraKeyStrategy |-> IF heap[h].extraKeyStrategy = "strict"
                               THEN "strip" ELSE "strict"], "strict", h)
  /\ UNCHANGED <<lists, shapes>>

ZodObject_strict(h) ==
  /\ heap[h].kind = "ZodObject"
  /\ New([kind |-> "ZodObject", shape |-> heap[h].shape,
          extraKeyStrategy |-> "strict"], "strict", h)
  /\ UNCHANGED <<lists, shapes>>

ZodObject_strip(h) ==
  /\ heap[h].kind = "ZodObject"
  /\ New([kind |-> "ZodObject", shape |-> heap[h].shape,
          extraKeyStrategy |-> "strip"], "strip", h)
  /\ UNCHANGED <<lists, shapes>>

\* a keyof that takes the first field name only
ZodObject_keyof_FirstOnly(h) ==
  /\ heap[h].kind = "ZodObject"
  /\ New([kind |-> "ZodEnum",
          values |-> SubSeq(Keys(shapes[heap[h].shape]), 1, 1)], "keyof", h)
  /\ UNCHANGED <<lists, shapes>>

\* ZodEnum.create(Object.keys(this._def.shape))
ZodObject_keyof(h) ==
  /\ heap[h].kind = "ZodObject"
  /\ New([kind |-> "ZodEnum", values |-> Keys(shapes[heap[h].shape])],
         "keyof", h)
  /\ UNCHANGED <<lists, shapes>>

RECURSIVE Spread_KeepFirst(_, _, _)
\* a spread in which a property a already has is not overwritten
Spread_KeepFirst(a, b, i) ==
  IF i > Len(b) THEN a
  ELSE Spread_KeepFirst(IF HasOwn(a, b[i].key) THEN a
                        ELSE Append(a, b[i]), b, i + 1)

RECURSIVE Spread(_, _, _)
\* {...a, ...b}, from the i-th property of b on
Spread(a, b, i) ==
  IF i > Len(b) THEN a ELSE Spread(SetProp(a, b[i].key, b[i].val), b, i + 1)

\* a derivation that rebuilds the receiver's own shape object
Derive_InPlace(h, newShape, op) ==
  /\ shapes' = [shapes EXCEPT ![heap[h].shape] = newShape]
  /\ New(heap[h], op, h)
  /\ UNCHANGED lists

\* new ZodObject({...this._def, shape: newShape})
Derive(h, newShape, op) ==
  /\ shapes' = Append(shapes, newShape)
  /\ New([heap[h] EXCEPT !.shape = Len(shapes) + 1], op, h)
  /\ UNCHANGED lists

ZodObject_extend(h, shape) ==
  /\ heap[h].kind = "ZodObject"
  /\ \A i \in 1..Len(shape) : shape[i].val \in Handles
  /\ Derive(h, Spread(shapes[heap[h].shape], shape, 1), "extend")

\* a merge whose result takes the extra-key policy of the argument
ZodObject_merge_OtherPolicy(h, zodObject) ==
  /\ heap[h].kind = "ZodObject"
  /\ zodObject \in Handles
  /\ heap[zodObject].kind = "ZodObject"
  /\ shapes' = Append(shapes, Spread(shapes[heap[h].shape],
                                     shapes[heap[zodObject].shape], 1))
  /\ New([heap[zodObject] EXCEPT !.shape = Len(shapes) + 1], "merge", h)
  /\ UNCHANGED lists

\* this.extend(zodObject._def.shape)
ZodObject_merge(h, zodObject) ==
  /\ heap[h].kind = "ZodObject"
  /\ zodObject \in Handles
  /\ heap[zodObject].kind = "ZodObject"
  /\ Derive(h, Spread(shapes[heap[h].shape], shapes[heap[zodObject].shape], 1),
            "merge")

\* whether mask[key] is truthy: a mask is a plain object, so the names of
\* Object.prototype read as functions
MaskTruthy(mask, key) == key \in mask \/ key \in ObjectPrototypeKeys

ZodObject_pick(h, mask) ==
  /\ heap[h].kind = "ZodObject"
  /\ Derive(h, SelectSeq(shapes[heap[h].shape],
                         LAMBDA f : MaskTruthy(mask, f.key)), "pick")

\* an omit that keeps what pick keeps
ZodObject_omit_AsPick(h, mask) ==
  /\ heap[h].kind = "ZodObject"
  /\ Derive(h, SelectSeq(shapes[heap[h].shape],
                         LAMBDA f : MaskTruthy(mask, f.key)), "omit")

ZodObject_omit(h, mask) ==
  /\ heap[h].kind = "ZodObject"
  /\ Derive(h, SelectSeq(shapes[heap[h].shape],
                         LAMBDA f : ~MaskTruthy(mask, f.key)), "omit")

\* a selection that takes no field when no mask is given
Selected_MaskOnly(shape, mask) ==
  {i \in 1..Len(shape) : mask # <<>> /\ MaskTruthy(mask[1], shape[i].key)}

\* the fields a call with this optional mask selects
Selected(shape, mask) ==
  {i \in 1..Len(shape) : mask = <<>> \/ MaskTruthy(mask[1], shape[i].key)}

\* every selected field gets a new ZodOptional around its schema
ZodObject_partial(h, mask) ==
  /\ heap[h].kind = "ZodObject"
  /\ LET shape == shapes[heap[h].shape]
         sel == Selected(shape, mask)
         nth(i) == Cardinality({j \in sel : j <= i})
         wrappers == [n \in 1..Cardinality(sel) |->
                        LET i == CHOOSE j \in sel : nth(j) = n
                        IN [kind |-> "ZodOptional", innerType |-> shape[i].val]]
         newShape == [i \in 1..Len(shape) |->
                        IF i \in sel
                        THEN Prop(shape[i].key, Len(heap) + nth(i))
                        ELSE shape[i]]
     IN /\ shapes' = Append(shapes, newShape)
        /\ heap' = (heap \o wrappers)
                     \o <<[heap[h] EXCEPT !.shape = Len(shapes) + 1]>>
        /\ last' = [op |-> "partial", recv |-> h,
                    ret |-> Len(heap) + Cardinality(sel) + 1]
  /\ UNCHANGED lists

\* an unwrapping that takes off one Optional only
Innermost_OneLayer(hp, zodTypeAny) ==
  IF hp[zodTypeAny].kind = "ZodOptional"
  THEN hp[zodTypeAny].innerType ELSE zodTypeAny

RECURSIVE Innermost(_, _)
\* while (zodTypeAny instanceof ZodOptional) zodTypeAny = its innerType
Innermost(hp, zodTypeAny) ==
  IF hp[zodTypeAny].kind = "ZodOptional"
  THEN Innermost(hp, hp[zodTypeAny].innerType) ELSE zodTypeAny

ZodObject_required(h, mask) ==
  /\ heap[h].kind = "ZodObject"
  /\ LET shape == shapes[heap[h].shape]
         sel == Selected(shape, mask)
     IN Derive(h, [i \in 1..Len(shape) |->
                     IF i \in sel
                     THEN Prop(shape[i].key, Innermost(heap, shape[i].val))
                     ELSE shape[i]], "required")

-----------------------------------------------------------------------------
(***************************************************************************)
(* What a validation writes to the console: the trim branch of             *)
(* ZodString._parse calls console.info("result", data.trim() === "hello"). *)
(* ZodType_console(st, h, data) is the sequence of the lines that          *)
(* _parse of h on data writes, up to the point where it returns or raises. *)
(***************************************************************************)
ConsoleInfo(data) == <<"result", Bool(Trim(data) = "hello")>>

RECURSIVE StringConsole(_, _, _)
\* the loop over this._def.checks, from the i-th check on
StringConsole(checks, i, data) ==
  IF i > Len(checks) THEN <<>>
  ELSE IF checks[i].kind = "trim" THEN <<ConsoleInfo(data)>>
  ELSE IF ~StringChecks(<<checks[i]>>, 1, data).isValid THEN <<>>
  ELSE StringConsole(checks, i + 1, data)

RECURSIVE ZodType_console(_, _, _)

RECURSIVE ArrayConsole(_, _, _, _)
\* the loop over the items, from the i-th on
ArrayConsole(st, element, data, i) ==
  IF i > Len(data.items) THEN <<>>
  ELSE LET result == ZodType_parse(st, element, data.items[i])
       IN ZodType_console(st, element, data.items[i])
            \o (IF Threw(result) \/ ~result.isValid THEN <<>>
                ELSE ArrayConsole(st, element, data, i + 1))

RECURSIVE ObjectConsole(_, _, _, _)
\* the loop over the keys of reshapedData, from the i-th on
ObjectConsole(st, shape, reshapedData, i) ==
  IF i > Len(reshapedData) THEN <<>>
  ELSE LET key == reshapedData[i].key IN
    IF HasOwn(shape, key)
    THEN LET field == shape[Get(shape, key)].val
             result == ZodType_parse(st, field, reshapedData[i].val)
         IN ZodType_console(st, field, reshapedData[i].val)
              \o (IF Threw(result) \/ ~result.isValid THEN <<>>
                  ELSE ObjectConsole(st, shape, reshapedData, i + 1))
    ELSE IF key \in ObjectPrototypeKeys THEN <<>>
    ELSE ObjectConsole(st, shape, reshapedData, i + 1)

\* the condition under which the loop over the checks returns at check
ArrayCheckFails(check, data) ==
  CASE check.kind = "min" -> NumLt(Whole(Len(data.items)), check.value)
    [] check.kind = "max" -> NumGt(Whole(Len(data.items)), check.value)
    [] check.kind = "length" -> Whole(Len(data.items)) # check.value

\* data passes every type gate of ZodObject._parse
PassesObjectGates(data) ==
  /\ data.t = "object"
  /\ ~(/\ HasProperty(data, "then") /\ IsCallableProperty(data, "then")
       /\ HasProperty(data, "catch") /\ IsCallableProperty(data, "catch"))

ZodType_console(st, h, data) ==
  LET def == st.heap[h] IN
  CASE def.kind = "ZodString" ->
         IF typeOf(data) # "string" THEN <<>>
         ELSE StringConsole(st.lists[def.checks], 1, data.s)
    [] def.kind \in {"ZodNumber", "ZodEnum"} -> <<>>
    [] def.kind = "ZodOptional" ->
         IF typeOf(data) = "undefined" THEN <<>>
         ELSE ZodType_console(st, def.innerType, data)
    [] def.kind = "ZodNullable" ->
         IF data = Null THEN <<>>
         ELSE ZodType_console(st, def.innerType, data)
    [] def.kind = "ZodArray" ->
         IF \/ data.t # "array"
            \/ def.nonempty /\ Len(data.items) = 0
            \/ \E i \in 1..Len(st.lists[def.checks]) :
                 ArrayCheckFails(st.lists[def.checks][i], data)
         THEN <<>>
         ELSE ArrayConsole(st, def.element, data, 1)
    [] def.kind = "ZodObject" ->
         LET shape == st.shapes[def.shape]
             extraKeys == ExtraKeys(Keys(shape), data.fields)
         IN IF \/ ~PassesObjectGates(data)
               \/ FirstMissing(Keys(shape), data) # 0
               \/ Len(extraKeys) > 0 /\ def.extraKeyStrategy = "strict"
            THEN <<>>
            ELSE ObjectConsole(st, shape,
                   Reshape(def.extraKeyStrategy, extraKeys, data.fields), 1)

-----------------------------------------------------------------------------
(***************************************************************************)
(* Validation calls: they read the store and change none of it; console    *)
(* is what the call wrote to the console.                                  *)
(***************************************************************************)
Call_safeParse(h, data) ==
  /\ h \in Handles
  /\ last' = [op |-> "safeParse", recv |-> h, ret |-> 0, data |-> data,
              out |-> safeParse(Store, h, data),
              console |-> ZodType_console(Store, h, data)]
  /\ UNCHANGED <<heap, lists, shapes>>

Call_parse(h, data) ==
  /\ h \in Handles
  /\ last' = [op |-> "parse", recv |-> h, ret |-> 0, data |-> data,
              out |-> parse(Store, h, data),
              console |-> ZodType_console(Store, h, data)]
  /\ UNCHANGED <<heap, lists, shapes>>

-----------------------------------------------------------------------------
(***************************************************************************)
(* Every specification explores the calls that leave at most MaxSchemas    *)
(* schemas on the heap.  A builder call makes one schema, so no check list *)
(* grows without bound either.                                             *)
(***************************************************************************)
Bounded == Len(heap') <= MaxSchemas

NoMessage == {<<>>}

-----------------------------------------------------------------------------
(***************************************************************************)
(* SpecString: String schemas, the length checks and trim, and safeParse.  *)
(***************************************************************************)
StringLengths == {Whole(1), Whole(2)}
StringInputs ==
  {Str(""), Str("a"), Str("ab"), Str("abc"), Str(" a"),
   Undefined, Num(Whole(1)), Sym}

NextString ==
  \/ ZodString_create /\ Bounded
  \/ \E h \in OfKind("ZodString"), n \in StringLengths, m \in NoMessage :
       ZodString_min(h, n, m) /\ Bounded
  \/ \E h \in OfKind("ZodString"), n \in StringLengths, m \in NoMessage :
       ZodString_max(h, n, m) /\ Bounded
  \/ \E h \in OfKind("ZodString"), n \in StringLengths, m \in NoMessage :
       ZodString_length(h, n, m) /\ Bounded
  \/ \E h \in OfKind("ZodString"), m \in NoMessage :
       ZodString_trim(h, m) /\ Bounded
  \/ \E h \in Handles, v \in StringInputs : Call_safeParse(h, v)

SpecString == Init /\ [][NextString]_vars

StoreNext == [heap |-> heap', lists |-> lists', shapes |-> shapes']

\* the latest call was safeParse on a String schema with exactly one check,
\* of kind min, max or length
SingleLengthCheck ==
  /\ last.op = "safeParse"
  /\ heap[last.recv].kind = "ZodString"
  /\ Len(lists[heap[last.recv].checks]) = 1
  /\ lists[heap[last.recv].checks][1].kind \in {"min", "max", "length"}

\* what the length check of kind kind with bound n says of a string s
LengthAccepts(kind, n, s) ==
  CASE kind = "min" -> Len(s) >= n
    [] kind = "max" -> Len(s) <= n
    [] kind = "length" -> Len(s) = n

\* C9, as the claim states it: a String schema with the single check min(n),
\* max(n) or length(n) accepts a string v exactly when length(v) >= n,
\* length(v) <= n, length(v) = n, and returns it unchanged; every
\* non-string input fails with the type-mismatch reason.
C9_LengthChecksAndTypeGate ==
  SingleLengthCheck =>
    LET check == lists[heap[last.recv].checks][1]
        v == last.data
        out == last.out
    IN IF v.t = "string"
       THEN /\ ~Threw(out)
            /\ out.success <=> LengthAccepts(check.kind, check.value.m, v.s)
            /\ out.success => out.data = v
       ELSE /\ ~Threw(out)
            /\ ~out.success
            /\ CanStr(v) => out.error = ToStr(v) \o " is not a string"

\* The part of C9 about string inputs alone: it holds.
C9_OnStrings ==
  SingleLengthCheck /\ last.data.t = "string" =>
    LET check == lists[heap[last.recv].checks][1]
    IN /\ ~Threw(last.out)
       /\ last.out.success
            <=> LengthAccepts(check.kind, check.value.m, last.data.s)
       /\ last.out.success => last.out.data = last.data

\* the check-appending builder calls of ZodString, ZodNumber and ZodArray
CheckBuilders ==
  {"min", "max", "length", "email", "regex", "trim", "gt", "gte", "lt", "lte",
   "int", "positive", "nonnegative", "negative", "nonpositive", "multipleOf",
   "finite", "safe"}

\* C3, as the claim states it: over a check-appending builder call every
\* schema handle that existed before the call validates every value as it
\* did before the call.
C3_BuildersKeepExistingSchemas ==
  [][last'.op \in CheckBuilders =>
       \A h \in Handles : \A v \in StringInputs :
         safeParse(StoreNext, h, v) = safeParse(Store, h, v)]_vars

-----------------------------------------------------------------------------
(***************************************************************************)
(* SpecNumber: Number schemas, the bound checks and safeParse.             *)
(***************************************************************************)
NumberBounds == {Whole(5), Dec(5, 1)}
NumberInputs ==
  {Num(Whole(-1)), Num(Whole(0)), Num(Dec(5, 1)), Num(Whole(5)), Num(Whole(6)),
   Num(NaN), Num(Infinity), Num(NegInfinity),
   Num(MAX_SAFE_INTEGER), Num(Fin(1, 0, 0)),
   Num(MIN_SAFE_INTEGER), Num(Fin(-1, 0, 0)),
   Str("5"), Undefined}

NextNumber ==
  \/ ZodNumber_create /\ Bounded
  \/ \E h \in OfKind("ZodNumber"), b \in NumberBounds, m \in NoMessage :
       ZodNumber_gt(h, b, m) /\ Bounded
  \/ \E h \in OfKind("ZodNumber"), b \in NumberBounds, m \in NoMessage :
       ZodNumber_gte(h, b, m) /\ Bounded
  \/ \E h \in OfKind("ZodNumber"), b \in NumberBounds, m \in NoMessage :
       ZodNumber_lt(h, b, m) /\ Bounded
  \/ \E h \in OfKind("ZodNumber"), b \in NumberBounds, m \in NoMessage :
       ZodNumber_lte(h, b, m) /\ Bounded
  \/ \E h \in OfKind("ZodNumber"), m \in NoMessage :
       ZodNumber_positive(h, m) /\ Bounded
  \/ \E h \in OfKind("ZodNumber"), m \in NoMessage :
       ZodNumber_nonnegative(h, m) /\ Bounded
  \/ \E h \in OfKind("ZodNumber"), m \in NoMessage :
       ZodNumber_negative(h, m) /\ Bounded
  \/ \E h \in OfKind("ZodNumber"), m \in NoMessage :
       ZodNumber_nonpositive(h, m) /\ Bounded
  \/ \E h \in OfKind("ZodNumber"), m \in NoMessage :
       ZodNumber_safe(h, m) /\ Bounded
  \/ \E h \in Handles, v \in NumberInputs : Call_safeParse(h, v)

SpecNumber == Init /\ [][NextNumber]_vars

\* the checks of the Number schema the latest safeParse was called on
LastNumberChecks == lists[heap[last.recv].checks]

\* what a min or max check with bound b says of a number x: x > b, x >= b,
\* x < b or x <= b
BoundAccepts(check, x) ==
  CASE check.kind = "min" /\ ~check.isInclusive -> NumGt(x, check.value)
    [] check.kind = "min" /\ check.isInclusive -> NumGe(x, check.value)
    [] check.kind = "max" /\ ~check.isInclusive -> NumLt(x, check.value)
    [] check.kind = "max" /\ check.isInclusive -> NumLe(x, check.value)

\* C10, as the claim states it: a Number schema with one bound check (from
\* gt, gte, lt, lte, positive, nonnegative, negative, nonpositive) accepts a
\* number x exactly when x > b, x >= b, x < b, x <= b; one with the checks
\* of safe() accepts exactly the numbers from the minimum to the maximum
\* safe integer; every non-number input fails.
C10_BoundsExact ==
  last.op = "safeParse" /\ heap[last.recv].kind = "ZodNumber" =>
    LET checks == LastNumberChecks
        v == last.data
        out == last.out
    IN IF v.t # "number" THEN ~Threw(out) /\ ~out.success
       ELSE /\ Len(checks) = 1 =>
                 /\ ~Threw(out)
                 /\ out.success <=> BoundAccepts(checks[1], v.n)
            /\ checks = <<MinCheck(MIN_SAFE_INTEGER, TRUE, <<>>),
                          MaxCheck(MAX_SAFE_INTEGER, TRUE, <<>>)>> =>
                 /\ ~Threw(out)
                 /\ out.success <=> /\ NumGe(v.n, MIN_SAFE_INTEGER)
                                    /\ NumLe(v.n, MAX_SAFE_INTEGER)

\* C10 without NaN: on every input but NaN the bounds are exact.
C10_ExceptNaN ==
  last.op = "safeParse" /\ last.data # Num(NaN) => C10_BoundsExact

-----------------------------------------------------------------------------
(***************************************************************************)
(* SpecObject: Object schemas over String fields, the extra-key policies   *)
(* and safeParse.                                                          *)
(***************************************************************************)
\* the shape literals {a}, {a, b}, {""} and {toString} over String schemas
ObjectShapes ==
  LET S == OfKind("ZodString") IN
    {<<Prop("a", h)>> : h \in S}
      \cup {<<Prop("a", h), Prop("b", g)>> : h \in S, g \in S}
      \cup {<<Prop("", h)>> : h \in S}
      \cup {<<Prop("toString", h)>> : h \in S}

ObjectInputs ==
  {Obj(<<>>),
   Obj(<<Prop("a", Str("x"))>>),
   Obj(<<Prop("a", Str("x")), Prop("b", Str("y"))>>),
   Obj(<<Prop("b", Str("y")), Prop("a", Str("x"))>>),
   Obj(<<Prop("a", Str("x")), Prop("c", Num(Whole(1))), Prop("d", Null)>>),
   Obj(<<Prop("d", Null), Prop("a", Str("x")), Prop("c", Num(Whole(1)))>>),
   Obj(<<Prop("a", Num(Whole(1)))>>),
   Obj(<<Prop("a", Num(Whole(1))), Prop("c", Num(Whole(1)))>>),
   Obj(<<Prop("c", Num(Whole(1)))>>),
   Obj(<<Prop("", Str("x"))>>),
   Obj(<<Prop("a", Str("x")), Prop("toString", Str("x"))>>),
   Obj(<<Prop("a", Str("x")), Prop("__proto__", Num(Whole(1)))>>),
   Null,
   Arr(<<>>)}

NextObject ==
  \/ ZodString_create /\ Bounded
  \/ \E shape \in ObjectShapes : ZodObject_create(shape) /\ Bounded
  \/ \E h \in OfKind("ZodObject") : ZodObject_passthrough(h) /\ Bounded
  \/ \E h \in OfKind("ZodObject") : ZodObject_strict(h) /\ Bounded
  \/ \E h \in Handles, v \in ObjectInputs : Call_safeParse(h, v)

SpecObject == Init /\ [][NextObject]_vars

\* the latest call was safeParse of a plain object, one that passes the
\* type gates, on an Object schema
ObjectParsed ==
  /\ last.op = "safeParse"
  /\ heap[last.recv].kind = "ZodObject"
  /\ last.data.t = "object"
  /\ ~(/\ IsCallableProperty(last.data, "then")
       /\ IsCallableProperty(last.data, "catch"))

LastShape == shapes[heap[last.recv].shape]
LastPolicy == heap[last.recv].extraKeyStrategy
Succeeded(out) == ~Threw(out) /\ out.success
Failed(out) == ~Threw(out) /\ ~out.success

\* C5, as the claim states it: when Object validation succeeds, under strip the returned record has
\* exactly the input's fields that the shape declares, under passthrough it
\* has every field of the input, and every returned field holds the
\* input's value for it.
C5_ReshapedByPolicy ==
  ObjectParsed /\ Succeeded(last.out) =>
    LET inF == last.data.fields
        outF == last.out.data.fields
    IN /\ last.out.data.t = "object"
       /\ LastPolicy = "strip" =>
            KeySet(outF) = KeySet(inF) \cap KeySet(LastShape)
       /\ LastPolicy = "passthrough" => KeySet(outF) = KeySet(inF)
       /\ LastPolicy \in {"strip", "passthrough"} =>
            /\ Cardinality(KeySet(outF)) = Len(outF)
            /\ \A i \in 1..Len(outF) : \E j \in 1..Len(inF) : outF[i] = inF[j]

\* C5 for inputs that have no field named __proto__: there the claim holds.
C5_ExceptProto ==
  ObjectParsed /\ "__proto__" \notin KeySet(last.data.fields)
  => C5_ReshapedByPolicy

\* a strip schema accepted an input and dropped an undeclared field of it
C5_Witness ==
  /\ ObjectParsed /\ Succeeded(last.out)
  /\ LastPolicy = "strip"
  /\ KeySet(last.data.fields) \ KeySet(LastShape) # {}
  /\ KeySet(last.out.data.fields) # {}

\* a passthrough schema accepted an input and kept an undeclared field
C5_PassthroughReached ==
  /\ ObjectParsed /\ Succeeded(last.out)
  /\ LastPolicy = "passthrough"
  /\ KeySet(last.out.data.fields) \ KeySet(LastShape) # {}

\* the input's field names that the shape does not declare, in input order
Undeclared(shape, fields) ==
  SelectSeq(Keys(fields), LAMBDA key : key \notin KeySet(shape))

\* C6: under strict an input that has every declared field and a field the
\* shape does not declare fails, with the reason that lists the undeclared
\* names comma-joined in input order; with no undeclared field strict gives
\* the result strip gives.
C6_StrictRejectsExtras ==
  /\ ObjectParsed
  /\ LastPolicy = "strict"
  /\ KeySet(LastShape) \subseteq KeySet(last.data.fields)
  => LET extras == Undeclared(LastShape, last.data.fields)
         asStrip == [Store EXCEPT
                       !.heap[last.recv].extraKeyStrategy = "strip"]
     IN IF extras # <<>>
        THEN /\ Failed(last.out)
             /\ last.out.error = "extra key(s) found: " \o JoinKeys(extras, 1)
        ELSE last.out = safeParse(asStrip, last.recv, last.data)

\* a strict schema rejected an input with two undeclared fields whose
\* declared fields are all present
C6_Witness ==
  /\ ObjectParsed
  /\ LastPolicy = "strict"
  /\ KeySet(LastShape) \subseteq KeySet(last.data.fields)
  /\ Len(Undeclared(LastShape, last.data.fields)) = 2
  /\ Failed(last.out)

\* the first name of the shape, in declaration order, the input lacks
FirstAbsent(shape, fields) ==
  shape[CHOOSE i \in 1..Len(shape) :
          /\ shape[i].key \notin KeySet(fields)
          /\ \A j \in 1..(i - 1) : shape[j].key \in KeySet(fields)].key

\* C7, as the claim states it: an input that lacks a declared field fails,
\* whatever the field's schema and the policy, and the reason names the
\* first declared field that is absent.
C7_MissingFieldFails ==
  /\ ObjectParsed
  /\ ~(KeySet(LastShape) \subseteq KeySet(last.data.fields))
  => /\ Failed(last.out)
     /\ last.out.error =
          FirstAbsent(LastShape, last.data.fields)
            \o " is in [object Object], but not in [object Object]"

\* C7 for shapes whose names are neither empty nor names of
\* Object.prototype and inputs the reason's template can render: there the
\* claim holds.
C7_OrdinaryNames ==
  /\ ObjectParsed
  /\ CanStr(last.data)
  /\ \A i \in 1..Len(LastShape) :
       LastShape[i].key \notin ObjectPrototypeKeys \cup {""}
  => C7_MissingFieldFails

-----------------------------------------------------------------------------
(***************************************************************************)
(* Spec: schemas of every class, nested through the wrappers, z.array and  *)
(* z.object, validated by safeParse and by parse.                          *)
(***************************************************************************)
\* the shape literals {a: h}
AnyShapes == {<<Prop("a", h)>> : h \in Handles}

AnyInputs ==
  {Undefined, Null, Str("a"), Num(Whole(1)), Sym,
   Arr(<<Str("a")>>),
   Obj(<<Prop("a", Str("a"))>>),
   Obj(<<Prop("a", Str("a")), Prop("toString", Num(Whole(1)))>>)}

Next ==
  \/ ZodString_create /\ Bounded
  \/ ZodNumber_create /\ Bounded
  \/ ZodEnum_create(<<"a", "b">>) /\ Bounded
  \/ \E h \in Handles : ZodOptional_create(h) /\ Bounded
  \/ \E h \in Handles : ZodType_optional(h) /\ Bounded
  \/ \E h \in Handles : ZodNullable_create(h) /\ Bounded
  \/ \E h \in Handles : ZodType_nullable(h) /\ Bounded
  \/ \E h \in Handles : ZodArray_create(h) /\ Bounded
  \/ \E h \in Handles : ZodType_array(h) /\ Bounded
  \/ \E shape \in AnyShapes : ZodObject_create(shape) /\ Bounded
  \/ \E h \in OfKind("ZodObject") : ZodObject_passthrough(h) /\ Bounded
  \/ \E h \in Handles, v \in AnyInputs : Call_safeParse(h, v)
  \/ \E h \in Handles, v \in AnyInputs : Call_parse(h, v)

Spec == Init /\ [][Next]_vars

\* C2, as the claim states it: safeParse raises for no schema and no input;
\* it returns a success, or a failure whose reason is a non-empty string.
C2_SafeParseNeverRaises ==
  last.op = "safeParse" =>
    /\ ~Threw(last.out)
    /\ ~last.out.success => last.out.error # ""

\* C1, as the claim states it: parse raises exactly when safeParse of the
\* same schema and value returns success false; it returns safeParse's data
\* otherwise, and what it raises carries the reason of safeParse's error.
C1_ParseAgreesWithSafeParse ==
  last.op = "parse" =>
    LET result == safeParse(Store, last.recv, last.data) IN
      /\ Threw(last.out) <=> (~Threw(result) /\ ~result.success)
      /\ ~Threw(last.out) => last.out.returned = result.data
      /\ Threw(last.out) => last.out.error = result.error

\* C1 where safeParse returns: there parse agrees with it.
C1_WhenSafeParseReturns ==
  last.op = "parse" /\ ~Threw(safeParse(Store, last.recv, last.data))
  => C1_ParseAgreesWithSafeParse

-----------------------------------------------------------------------------
(***************************************************************************)
(* SpecWrappers: Optional and Nullable around String, Number and Array     *)
(* schemas and around each other, and safeParse.                           *)
(***************************************************************************)
WrapperInputs ==
  {Undefined, Null, Str("a"), Num(Whole(1)), Sym,
   Arr(<<Str("a")>>), Arr(<<Null>>)}

NextWrappers ==
  \/ ZodString_create /\ Bounded
  \/ ZodNumber_create /\ Bounded
  \/ \E h \in Handles : ZodType_array(h) /\ Bounded
  \/ \E h \in Handles : ZodOptional_create(h) /\ Bounded
  \/ \E h \in Handles : ZodType_optional(h) /\ Bounded
  \/ \E h \in Handles : ZodNullable_create(h) /\ Bounded
  \/ \E h \in Handles : ZodType_nullable(h) /\ Bounded
  \/ \E h \in Handles, v \in WrapperInputs : Call_safeParse(h, v)

SpecWrappers == Init /\ [][NextWrappers]_vars

\* C8: safeParse of an Optional schema on undefined succeeds with undefined,
\* and on every other value it gives what safeParse of the wrapped schema
\* gives; a Nullable schema does the same with null.
C8_WrappersDelegate ==
  /\ last.op = "safeParse"
  /\ heap[last.recv].kind \in {"ZodOptional", "ZodNullable"}
  => LET sentinel == IF heap[last.recv].kind = "ZodOptional"
                     THEN Undefined ELSE Null
     IN IF last.data = sentinel
        THEN last.out = [success |-> TRUE, data |-> sentinel]
        ELSE last.out = safeParse(Store, heap[last.recv].innerType, last.data)

\* an Optional schema was given null and failed as its wrapped schema does
C8_Witness ==
  /\ last.op = "safeParse"
  /\ heap[last.recv].kind = "ZodOptional"
  /\ last.data = Null
  /\ Failed(last.out)

\* a Nullable schema around an Optional one accepted undefined
C8_NestedReached ==
  /\ last.op = "safeParse"
  /\ heap[last.recv].kind = "ZodNullable"
  /\ heap[heap[last.recv].innerType].kind = "ZodOptional"
  /\ last.data = Undefined
  /\ Succeeded(last.out)

-----------------------------------------------------------------------------
(***************************************************************************)
(* SpecCombinators: Object schemas over String fields and every structural *)
(* combinator.  partial() makes a schema for each field it wraps, so the   *)
(* heap is given room for them.                                            *)
(***************************************************************************)
MaxCombinatorSchemas == 5

CombinatorBounded == Len(heap') <= MaxCombinatorSchemas

CombinatorShapes ==
  LET S == OfKind("ZodString") IN
    {<<Prop("a", h)>> : h \in S}
      \cup {<<Prop("a", h), Prop("b", g)>> : h \in S, g \in S}

ExtensionShapes == {<<Prop("b", h)>> : h \in OfKind("ZodString")}

Masks == {{"a"}}
OptionalMasks == {<<>>, <<{"a"}>>}

NextCombinators ==
  \/ ZodString_create /\ CombinatorBounded
  \/ \E shape \in CombinatorShapes :
       ZodObject_create(shape) /\ CombinatorBounded
  \/ \E h \in Handles : ZodObject_passthrough(h) /\ CombinatorBounded
  \/ \E h \in Handles : ZodObject_strict(h) /\ CombinatorBounded
  \/ \E h \in Handles : ZodObject_strip(h) /\ CombinatorBounded
  \/ \E h \in Handles : ZodObject_keyof(h) /\ CombinatorBounded
  \/ \E h \in Handles, shape \in ExtensionShapes :
       ZodObject_extend(h, shape) /\ CombinatorBounded
  \/ \E h \in Handles, g \in Handles :
       ZodObject_merge(h, g) /\ CombinatorBounded
  \/ \E h \in Handles, mask \in Masks :
       ZodObject_pick(h, mask) /\ CombinatorBounded
  \/ \E h \in Handles, mask \in Masks :
       ZodObject_omit(h, mask) /\ CombinatorBounded
  \/ \E h \in Handles, mask \in OptionalMasks :
       ZodObject_partial(h, mask) /\ CombinatorBounded
  \/ \E h \in Handles, mask \in OptionalMasks :
       ZodObject_required(h, mask) /\ CombinatorBounded

SpecCombinators == Init /\ [][NextCombinators]_vars

Combinators ==
  {"passthrough", "strict", "strip", "keyof", "extend", "merge", "pick",
   "omit", "partial", "required"}

\* C4: a call of a structural combinator leaves every Object schema that
\* existed before it, the receiver among them, with the shape (the names and
\* the schema bound to each) and the extra-key policy it had, and returns a
\* handle that is not the receiver nor any earlier handle.
C4_CombinatorsKeepReceiver ==
  [][last'.op \in Combinators =>
       /\ \A h \in OfKind("ZodObject") :
            /\ heap'[h].kind = "ZodObject"
            /\ heap'[h].extraKeyStrategy = heap[h].extraKeyStrategy
            /\ shapes'[heap'[h].shape] = shapes[heap[h].shape]
       /\ last'.ret # last'.recv
       /\ last'.ret \notin Handles]_vars

\* required returned a schema whose shape is not the receiver's: it took a
\* field out of its Optional, and the receiver kept it
C4_Witness ==
  /\ last.op = "required"
  /\ shapes[heap[last.ret].shape] # shapes[heap[last.recv].shape]

\* strict returned a schema whose policy is not the receiver's
C4_PolicyReached ==
  /\ last.op = "strict"
  /\ heap[last.ret].extraKeyStrategy # heap[last.recv].extraKeyStrategy

-----------------------------------------------------------------------------
(***************************************************************************)
(* SpecMultipleOf: Number schemas, multipleOf and safeParse.               *)
(***************************************************************************)
Steps == {Whole(5), Dec(1, 1), Whole(0)}

MultipleOfInputs ==
  {Num(Dec(499, 1)), Num(Whole(4)), Num(Whole(10)), Num(Whole(0)),
   Num(Dec(25, 2)), Num(Whole(-10)), Num(NaN), Num(Infinity), Str("5")}

NextMultipleOf ==
  \/ ZodNumber_create /\ Bounded
  \/ \E h \in OfKind("ZodNumber"), step \in Steps, m \in NoMessage :
       ZodNumber_multipleOf(h, step, m) /\ Bounded
  \/ \E h \in Handles, v \in MultipleOfInputs : Call_safeParse(h, v)

SpecMultipleOf == Init /\ [][NextMultipleOf]_vars

\* x is an exact multiple of step: both are finite and x = k * step for an
\* integer k, decided on x and step scaled to integers by the larger of
\* their decimal-fraction lengths
IsMultiple(x, step) ==
  /\ x.k = "fin" /\ step.k = "fin"
  /\ LET decCount == IF x.d > step.d THEN x.d ELSE step.d
         xInt == x.m * Pow10(decCount - x.d)
         stepInt == step.m * Pow10(decCount - step.d)
     IN IF stepInt = 0 THEN xInt = 0 ELSE xInt % Abs(stepInt) = 0

\* the latest call was safeParse of a number on a Number schema whose only
\* check is one multipleOf
MultipleOfParsed ==
  /\ last.op = "safeParse"
  /\ heap[last.recv].kind = "ZodNumber"
  /\ last.data.t = "number"
  /\ Len(LastNumberChecks) = 1
  /\ LastNumberChecks[1].kind = "multipleOf"

\* C11, as the claim states it: a Number schema with multipleOf(step)
\* accepts a number exactly when the number is an exact multiple of step.
C11_MultipleOfExact ==
  MultipleOfParsed =>
    /\ ~Threw(last.out)
    /\ last.out.success <=> IsMultiple(last.data.n, LastNumberChecks[1].value)

\* C11 for finite values and steps other than 0: there the claim holds.
C11_FiniteNonzero ==
  /\ MultipleOfParsed
  /\ last.data.n.k = "fin"
  /\ LastNumberChecks[1].value # Whole(0)
  => C11_MultipleOfExact

-----------------------------------------------------------------------------
(***************************************************************************)
(* SpecEnum: Enum schemas, the enum accessor and safeParse.                *)
(***************************************************************************)
\* Object.fromEntries(this._def.values.map((value) => [value, value]))
ZodEnum_enum(h) ==
  /\ heap[h].kind = "ZodEnum"
  /\ LET values == heap[h].values
         entries == [i \in 1..Len(values) |-> Prop(values[i], Str(values[i]))]
     IN last' = [op |-> "get enum", recv |-> h, ret |-> 0,
                 out |-> Obj(Spread(<<>>, entries, 1))]
  /\ UNCHANGED <<heap, lists, shapes>>

EnumLiterals == {<<"a", "B">>, <<"b", "a", "b">>, <<"ab">>}

EnumInputs ==
  {Str("a"), Str("A"), Str("b"), Str("B"), Str("ab"), Str(""),
   Num(Whole(1)), Null, Undefined, Sym, Arr(<<Str("a")>>)}

NextEnum ==
  \/ \E values \in EnumLiterals : ZodEnum_create(values) /\ Bounded
  \/ \E h \in Handles : ZodEnum_enum(h)
  \/ \E h \in Handles, v \in EnumInputs : Call_safeParse(h, v)

SpecEnum == Init /\ [][NextEnum]_vars

\* the literals of the Enum schema the latest call was made on
LastLiterals ==
  {heap[last.recv].values[i] : i \in 1..Len(heap[last.recv].values)}

\* C12: an Enum schema accepts a value exactly when it is a string equal to
\* one of the literals, and returns it unchanged; no other value, and no
\* value that is not a string, is accepted.  The enum accessor has one key
\* for each literal and no other, each holding the literal itself.
C12_EnumMembership ==
  /\ last.op = "safeParse" /\ heap[last.recv].kind = "ZodEnum" =>
       IF last.data.t = "string" /\ last.data.s \in LastLiterals
       THEN last.out = [success |-> TRUE, data |-> last.data]
       ELSE ~Succeeded(last.out)
  /\ last.op = "get enum" =>
       LET fields == last.out.fields IN
         /\ last.out.t = "object"
         /\ KeySet(fields) = LastLiterals
         /\ Cardinality(KeySet(fields)) = Len(fields)
         /\ \A i \in 1..Len(fields) : fields[i].val = Str(fields[i].key)

\* an Enum schema with the literal "a" rejected the string "A"
C12_Witness ==
  /\ last.op = "safeParse"
  /\ heap[last.recv].kind = "ZodEnum"
  /\ "a" \in LastLiterals /\ "A" \notin LastLiterals
  /\ last.data = Str("A")
  /\ Failed(last.out)

\* the accessor of an Enum schema in which a literal occurs twice was read
C12_AccessorReached ==
  /\ last.op = "get enum"
  /\ Len(heap[last.recv].values) > Cardinality(LastLiterals)

-----------------------------------------------------------------------------
(***************************************************************************)
(* extend and merge, under SpecCombinators.                                *)
(***************************************************************************)
\* the store after h.extend(shape)
ExtendedStore(h, shape) ==
  [heap |-> Append(heap, [heap[h] EXCEPT !.shape = Len(shapes) + 1]),
   lists |-> lists,
   shapes |-> Append(shapes, Spread(shapes[heap[h].shape], shape, 1))]

\* C13: the schema o.extend(more) returns has the names of o and of more,
\* each once; a name of more is bound to more's schema, every other name to
\* o's.  o.merge(p) leaves the store that o.extend(p's shape) leaves and
\* returns the handle it returns, so the two schemas give the same result
\* on every input.
C13_ExtendAndMerge ==
  [][/\ last'.op = "extend" =>
          \A more \in ExtensionShapes :
            ZodObject_extend(last'.recv, more) =>
              LET o == shapes[heap[last'.recv].shape]
                  new == shapes'[heap'[last'.ret].shape]
              IN /\ KeySet(new) = KeySet(o) \cup KeySet(more)
                 /\ Cardinality(KeySet(new)) = Len(new)
                 /\ \A i \in 1..Len(new) :
                      new[i].val = IF HasOwn(more, new[i].key)
                                   THEN more[Get(more, new[i].key)].val
                                   ELSE o[Get(o, new[i].key)].val
     /\ last'.op = "merge" =>
          \A p \in Handles :
            ZodObject_merge(last'.recv, p) =>
              /\ last'.ret = Len(heap) + 1
              /\ StoreNext
                   = ExtendedStore(last'.recv, shapes[heap[p].shape])]_vars

\* extend returned a schema in which the field b is bound to another schema
\* than in the receiver
C13_Witness ==
  /\ last.op = "extend"
  /\ HasOwn(shapes[heap[last.recv].shape], "b")
  /\ LET o == shapes[heap[last.recv].shape]
         new == shapes[heap[last.ret].shape]
     IN new[Get(new, "b")].val # o[Get(o, "b")].val

\* merge returned a schema with a field the receiver does not have
C13_MergeReached ==
  /\ last.op = "merge"
  /\ KeySet(shapes[heap[last.ret].shape])
       # KeySet(shapes[heap[last.recv].shape])

-----------------------------------------------------------------------------
(***************************************************************************)
(* pick and omit, under SpecCombinators.                                   *)
(***************************************************************************)
\* a shape as the set of its fields, each a name and the schema bound to it
FieldsOf(shape) == {shape[i] : i \in 1..Len(shape)}

\* the fields of o whose name is not truthy in the mask, in o's order
Unmasked(o, mask) == SelectSeq(o, LAMBDA f : ~MaskTruthy(mask, f.key))

\* C14: o.pick(m) has exactly the fields of o whose name is truthy in m, and
\* o.omit(m) exactly the others, each bound to the schema it has in o; the
\* two have no name in common, and extending the first by the second gives
\* the fields of o.
C14_PickAndOmit ==
  [][/\ last'.op = "pick" =>
          \A m \in Masks :
            ZodObject_pick(last'.recv, m) =>
              LET o == shapes[heap[last'.recv].shape]
                  picked == shapes'[heap'[last'.ret].shape]
                  omitted == Unmasked(o, m)
              IN /\ FieldsOf(picked)
                      = {f \in FieldsOf(o) : MaskTruthy(m, f.key)}
                 /\ Cardinality(KeySet(picked)) = Len(picked)
                 /\ KeySet(picked) \cap KeySet(omitted) = {}
                 /\ FieldsOf(Spread(picked, omitted, 1)) = FieldsOf(o)
     /\ last'.op = "omit" =>
          \A m \in Masks :
            ZodObject_omit(last'.recv, m) =>
              LET o == shapes[heap[last'.recv].shape]
                  omitted == shapes'[heap'[last'.ret].shape]
              IN /\ FieldsOf(omitted)
                      = {f \in FieldsOf(o) : ~MaskTruthy(m, f.key)}
                 /\ Cardinality(KeySet(omitted)) = Len(omitted)
                 /\ FieldsOf(omitted) = FieldsOf(Unmasked(o, m))]_vars

\* pick took one of the two fields of its receiver
C14_Witness ==
  /\ last.op = "pick"
  /\ Len(shapes[heap[last.recv].shape]) = 2
  /\ Len(shapes[heap[last.ret].shape]) = 1

\* omit dropped one of the two fields of its receiver
C14_OmitReached ==
  /\ last.op = "omit"
  /\ Len(shapes[heap[last.recv].shape]) = 2
  /\ Len(shapes[heap[last.ret].shape]) = 1

-----------------------------------------------------------------------------
(***************************************************************************)
(* partial, under SpecCombinators.                                         *)
(***************************************************************************)
FieldValues == {Undefined, Str("x"), Num(Whole(1))}

\* the records that have the names of the shape, in its order, and hold
\* one of FieldValues under each
RecordsOver(shape) ==
  {Obj([i \in 1..Len(shape) |-> Prop(shape[i].key, f[i])]) :
     f \in [1..Len(shape) -> FieldValues]}

\* C15: the schema o.partial() returns accepts every record of the declared
\* fields in which each field is undefined or holds a value its schema in
\* o accepts.  o.partial(m) binds each field truthy in m to a new Optional
\* around its schema in o, and every other field to its schema in o; with
\* no mask every field is bound to such an Optional.
C15_PartialAcceptsUndefined ==
  [][last'.op = "partial" =>
       \A mask \in OptionalMasks :
         ZodObject_partial(last'.recv, mask) =>
           LET o == shapes[heap[last'.recv].shape]
               new == shapes'[heap'[last'.ret].shape]
           IN /\ Keys(new) = Keys(o)
              /\ \A i \in 1..Len(o) :
                   IF mask = <<>> \/ MaskTruthy(mask[1], o[i].key)
                   THEN /\ new[i].val \notin Handles
                        /\ heap'[new[i].val]
                             = [kind |-> "ZodOptional", innerType |-> o[i].val]
                   ELSE new[i].val = o[i].val
              /\ mask = <<>> =>
                   \A v \in RecordsOver(o) :
                     (\A i \in 1..Len(o) :
                        \/ v.fields[i].val = Undefined
                        \/ Succeeded(safeParse(Store, o[i].val,
                                               v.fields[i].val)))
                     => safeParse(StoreNext, last'.ret, v)
                          = [success |-> TRUE, data |-> v]]_vars

\* partial() returned a schema of two fields, each an Optional around the
\* receiver's schema for it
C15_Witness ==
  /\ last.op = "partial"
  /\ LET o == shapes[heap[last.recv].shape]
         new == shapes[heap[last.ret].shape]
     IN /\ Len(o) = 2
        /\ \A i \in 1..2 : /\ heap[new[i].val].kind = "ZodOptional"
                           /\ heap[new[i].val].innerType = o[i].val

\* partial with a mask returned a schema that keeps the receiver's schema
\* for a field
C15_MaskReached ==
  /\ last.op = "partial"
  /\ LET o == shapes[heap[last.recv].shape]
         new == shapes[heap[last.ret].shape]
     IN \E i \in 1..Len(o) : \E j \in 1..Len(o) :
          new[i].val = o[i].val /\ new[j].val # o[j].val

-----------------------------------------------------------------------------
(***************************************************************************)
(* SpecRequired: Object schemas over wrapped String schemas and required.  *)
(* A field that accepts undefined without being an Optional is a Nullable  *)
(* around an Optional, so the heap is given room for the chain             *)
(* string, optional, nullable, optional, object, required.                 *)
(***************************************************************************)
MaxRequiredSchemas == 6

RequiredBounded == Len(heap') <= MaxRequiredSchemas

\* the shape literals {a: h} and {a: h, b: h} over Optional schemas
RequiredShapes ==
  {<<Prop("a", h)>> : h \in OfKind("ZodOptional")}
    \cup {<<Prop("a", h), Prop("b", h)>> : h \in OfKind("ZodOptional")}

NextRequired ==
  \/ ZodString_create /\ Len(heap) = 0
  \/ \E h \in Handles \ OfKind("ZodObject") :
       ZodType_optional(h) /\ RequiredBounded
  \/ \E h \in Handles \ OfKind("ZodObject") :
       ZodType_nullable(h) /\ RequiredBounded
  \/ \E shape \in RequiredShapes : ZodObject_create(shape) /\ RequiredBounded
  \/ \E h \in Handles, mask \in OptionalMasks :
       ZodObject_required(h, mask) /\ RequiredBounded

SpecRequired == Init /\ [][NextRequired]_vars

\* the schema returned by the required() just made fails on every record of
\* the declared fields in which some field is undefined
RequiredRejectsUndefined ==
  LET o == shapes[heap[last'.recv].shape] IN
    \A v \in RecordsOver(o) :
      (\E i \in 1..Len(o) : v.fields[i].val = Undefined)
      => Failed(safeParse(StoreNext, last'.ret, v))

\* the required(mask) just made bound the fields truthy in the mask to the
\* innermost schema below their Optionals and left every other field
RequiredByMask ==
  \A mask \in OptionalMasks :
    ZodObject_required(last'.recv, mask) =>
      LET o == shapes[heap[last'.recv].shape]
          new == shapes'[heap'[last'.ret].shape]
      IN /\ Keys(new) = Keys(o)
         /\ \A i \in 1..Len(o) :
              IF mask = <<>> \/ MaskTruthy(mask[1], o[i].key)
              THEN /\ heap[new[i].val].kind # "ZodOptional"
                   /\ Innermost(heap, o[i].val) = new[i].val
              ELSE new[i].val = o[i].val

\* every field of the receiver of the latest call is an Optional
AllOptional ==
  \A i \in 1..Len(shapes[heap[last'.recv].shape]) :
    heap[shapes[heap[last'.recv].shape][i].val].kind = "ZodOptional"

\* C16, as the claim states it: required() of a schema whose every field is
\* an Optional, around whatever schema, returns a schema that fails on
\* every record in which a declared field is undefined; with a mask only
\* the fields truthy in it are changed.
C16_RequiredRejectsUndefined ==
  [][last'.op = "required" =>
       /\ RequiredByMask
       /\ ZodObject_required(last'.recv, <<>>) /\ AllOptional
            => RequiredRejectsUndefined]_vars

\* C16 amended: the same, for a schema whose every field is a chain of
\* Optionals around a schema that rejects undefined.
C16_RequiredOfOptionalChains ==
  [][last'.op = "required" =>
       /\ RequiredByMask
       /\ (/\ ZodObject_required(last'.recv, <<>>)
           /\ AllOptional
           /\ \A i \in 1..Len(shapes[heap[last'.recv].shape]) :
                Failed(safeParse(Store,
                         Innermost(heap, shapes[heap[last'.recv].shape][i].val),
                         Undefined)))
            => RequiredRejectsUndefined]_vars

\* required() took a field out of two Optionals, one around the other
C16_Witness ==
  /\ last.op = "required"
  /\ LET o == shapes[heap[last.recv].shape]
         new == shapes[heap[last.ret].shape]
     IN /\ heap[o[1].val].kind = "ZodOptional"
        /\ heap[heap[o[1].val].innerType].kind = "ZodOptional"
        /\ heap[new[1].val].kind = "ZodString"

-----------------------------------------------------------------------------
(***************************************************************************)
(* SpecIdempotence: one Object schema over a String field, the extra-key   *)
(* policies and partial(), each applied again to what it returned.         *)
(* partial() twice takes the chain string, object, optional, partial,      *)
(* optional, partial.                                                      *)
(***************************************************************************)
MaxIdempotenceSchemas == 6

IdempotenceBounded == Len(heap') <= MaxIdempotenceSchemas

IdempotenceInputs ==
  ObjectInputs \cup {Obj(<<Prop("a", Undefined)>>), Undefined}

NextIdempotence ==
  \/ ZodString_create /\ Len(heap) = 0
  \/ ZodObject_create(<<Prop("a", 1)>>) /\ Len(heap) = 1
  \/ \E h \in Handles : ZodObject_passthrough(h) /\ IdempotenceBounded
  \/ \E h \in Handles : ZodObject_strict(h) /\ IdempotenceBounded
  \/ \E h \in Handles : ZodObject_strip(h) /\ IdempotenceBounded
  \/ \E h \in Handles : ZodObject_partial(h, <<>>) /\ IdempotenceBounded

SpecIdempotence == Init /\ [][NextIdempotence]_vars

\* the receiver of the call just made is itself what that call returns of
\* some schema: it has the policy the call sets, or for partial() every
\* field of it is an Optional
AppliedAgain ==
  LET o == heap[last'.recv] IN
    \/ last'.op \in {"passthrough", "strict", "strip"}
         /\ o.extraKeyStrategy = last'.op
    \/ last'.op = "partial"
         /\ \A i \in 1..Len(shapes[o.shape]) :
              heap[shapes[o.shape][i].val].kind = "ZodOptional"

\* C17: strip, strict, passthrough and partial(), applied to a schema that
\* one of them returned already, return a schema that gives on every input
\* the result the receiver gives.
C17_Idempotence ==
  [][last'.op \in {"passthrough", "strict", "strip", "partial"}
       /\ AppliedAgain
     => \A v \in IdempotenceInputs :
          safeParse(StoreNext, last'.ret, v)
            = safeParse(Store, last'.recv, v)]_vars

\* partial() returned a schema whose field is an Optional around the
\* Optional of its receiver
C17_Witness ==
  /\ last.op = "partial"
  /\ LET o == shapes[heap[last.recv].shape]
         new == shapes[heap[last.ret].shape]
     IN /\ heap[o[1].val].kind = "ZodOptional"
        /\ heap[new[1].val] = [kind |-> "ZodOptional", innerType |-> o[1].val]

\* strict was applied to a strict schema
C17_StrictReached ==
  /\ last.op = "strict"
  /\ heap[last.recv].extraKeyStrategy = "strict"

-----------------------------------------------------------------------------
(***************************************************************************)
(* keyof, under SpecCombinators.                                           *)
(***************************************************************************)
KeyofInputs ==
  {Str("a"), Str("b"), Str("A"), Str("c"), Str(""), Num(Whole(1)),
   Undefined, Sym, Arr(<<Str("a")>>)}

\* C18: o.keyof() returns an Enum schema that accepts a value exactly when
\* it is a string equal to a field name of o's shape, and returns it
\* unchanged, whatever the extra-key policy of o.
C18_KeyofAcceptsFieldNames ==
  [][last'.op = "keyof" =>
       LET names == KeySet(shapes[heap[last'.recv].shape]) IN
         /\ heap'[last'.ret].kind = "ZodEnum"
         /\ \A v \in KeyofInputs :
              IF v.t = "string" /\ v.s \in names
              THEN safeParse(StoreNext, last'.ret, v)
                     = [success |-> TRUE, data |-> v]
              ELSE ~Succeeded(safeParse(StoreNext, last'.ret, v))]_vars

\* keyof of a strict schema with two fields returned an Enum of two names
C18_Witness ==
  /\ last.op = "keyof"
  /\ heap[last.recv].extraKeyStrategy = "strict"
  /\ Len(heap[last.ret].values) = 2

-----------------------------------------------------------------------------
(***************************************************************************)
(* SpecUnwrap: Optional and Nullable around String and Number schemas and  *)
(* around each other, and unwrap.                                          *)
(***************************************************************************)
NextUnwrap ==
  \/ ZodString_create /\ Bounded
  \/ ZodNumber_create /\ Bounded
  \/ \E h \in Handles : ZodOptional_create(h) /\ Bounded
  \/ \E h \in Handles : ZodType_optional(h) /\ Bounded
  \/ \E h \in Handles : ZodNullable_create(h) /\ Bounded
  \/ \E h \in Handles : ZodType_nullable(h) /\ Bounded
  \/ \E h \in Handles : Unwrap(h)

SpecUnwrap == Init /\ [][NextUnwrap]_vars

\* C19: unwrap() of an Optional or a Nullable around S changes no schema
\* and returns a schema that gives on every value the result S gives.
C19_UnwrapIsInner ==
  [][last'.op = "unwrap" =>
       /\ StoreNext = Store
       /\ \A v \in WrapperInputs :
            safeParse(StoreNext, last'.ret, v)
              = safeParse(Store, heap[last'.recv].innerType, v)]_vars

\* unwrap of an Optional returned a schema that fails on undefined
C19_Witness ==
  /\ last.op = "unwrap"
  /\ heap[last.recv].kind = "ZodOptional"
  /\ Succeeded(safeParse(Store, last.recv, Undefined))
  /\ Failed(safeParse(Store, last.ret, Undefined))

\* unwrap of a Nullable returned a schema that fails on null
C19_NullableReached ==
  /\ last.op = "unwrap"
  /\ heap[last.recv].kind = "ZodNullable"
  /\ Failed(safeParse(Store, last.ret, Null))

-----------------------------------------------------------------------------
(***************************************************************************)
(* Custom messages.  The builders of ZodString, ZodNumber and ZodArray     *)
(* are called with and without a message, and the reason of a failure is   *)
(* compared with the message of the check that fails.                      *)
(***************************************************************************)
Messages == {<<>>, <<"custom">>}
MessageInputs ==
  {Str("a"), Str("abc"), Str("a@b.co"),
   Num(Whole(3)), Num(Dec(5, 1)), Num(Infinity), Num(Whole(10)),
   Arr(<<>>), Arr(<<Str("a")>>), Arr(<<Str("a"), Str("b")>>)}

NextMessages ==
  \/ ZodString_create /\ Bounded
  \/ ZodNumber_create /\ Bounded
  \/ \E h \in OfKind("ZodString") : ZodArray_create(h) /\ Bounded
  \/ \E h \in OfKind("ZodString"), m \in Messages :
       ZodString_min(h, Whole(2), m) /\ Bounded
  \/ \E h \in OfKind("ZodString"), m \in Messages :
       ZodString_max(h, Whole(1), m) /\ Bounded
  \/ \E h \in OfKind("ZodString"), m \in Messages :
       ZodString_length(h, Whole(3), m) /\ Bounded
  \/ \E h \in OfKind("ZodString"), m \in Messages :
       ZodString_email(h, m) /\ Bounded
  \/ \E h \in OfKind("ZodString"), m \in Messages :
       ZodString_regex(h, [prefix |-> "ab"], m) /\ Bounded
  \/ \E h \in OfKind("ZodNumber"), m \in Messages :
       ZodNumber_gt(h, Whole(5), m) /\ Bounded
  \/ \E h \in OfKind("ZodNumber"), m \in Messages :
       ZodNumber_gte(h, Whole(5), m) /\ Bounded
  \/ \E h \in OfKind("ZodNumber"), m \in Messages :
       ZodNumber_lt(h, Whole(5), m) /\ Bounded
  \/ \E h \in OfKind("ZodNumber"), m \in Messages :
       ZodNumber_lte(h, Whole(5), m) /\ Bounded
  \/ \E h \in OfKind("ZodNumber"), m \in Messages :
       ZodNumber_int(h, m) /\ Bounded
  \/ \E h \in OfKind("ZodNumber"), m \in Messages :
       ZodNumber_positive(h, m) /\ Bounded
  \/ \E h \in OfKind("ZodNumber"), m \in Messages :
       ZodNumber_nonnegative(h, m) /\ Bounded
  \/ \E h \in OfKind("ZodNumber"), m \in Messages :
       ZodNumber_negative(h, m) /\ Bounded
  \/ \E h \in OfKind("ZodNumber"), m \in Messages :
       ZodNumber_nonpositive(h, m) /\ Bounded
  \/ \E h \in OfKind("ZodNumber"), m \in Messages :
       ZodNumber_multipleOf(h, Whole(5), m) /\ Bounded
  \/ \E h \in OfKind("ZodNumber"), m \in Messages :
       ZodNumber_finite(h, m) /\ Bounded
  \/ \E h \in OfKind("ZodNumber"), m \in Messages :
       ZodNumber_safe(h, m) /\ Bounded
  \/ \E h \in OfKind("ZodArray"), m \in Messages :
       ZodArray_min(h, Whole(1), m) /\ Bounded
  \/ \E h \in OfKind("ZodArray"), m \in Messages :
       ZodArray_max(h, Whole(1), m) /\ Bounded
  \/ \E h \in OfKind("ZodArray"), m \in Messages :
       ZodArray_length(h, Whole(1), m) /\ Bounded
  \/ \E h \in Handles, v \in MessageInputs : Call_safeParse(h, v)

SpecMessages == Init /\ [][NextMessages]_vars

\* the checks of the schema of the latest call
LastChecks == lists[heap[last.recv].checks]

\* the store in which the check list of the latest call's schema is checks
WithChecks(checks) ==
  [Store EXCEPT !.lists[heap[last.recv].checks] = checks]

\* the check with index i, on its own, rejects the value of the latest call
RejectsAlone(i) ==
  ~Succeeded(safeParse(WithChecks(<<LastChecks[i]>>), last.recv, last.data))

\* the check that fails: the first one in the list that rejects the value
FailingCheck ==
  LastChecks[CHOOSE i \in 1..Len(LastChecks) :
               /\ RejectsAlone(i)
               /\ \A j \in 1..(i - 1) : ~RejectsAlone(j)]

\* the latest call was safeParse on a schema of the given kinds, it failed,
\* and it failed by a check: without its checks the schema accepts the value
FailedByCheck(kinds) ==
  /\ last.op = "safeParse"
  /\ heap[last.recv].kind \in kinds
  /\ Failed(last.out)
  /\ Succeeded(safeParse(WithChecks(<<>>), last.recv, last.data))

\* the reason is the message of the failing check when it has one, and it
\* is the message of no other check when it has none
ReasonIsOwnMessage ==
  IF FailingCheck.message # <<>>
  THEN last.out.error = FailingCheck.message[1]
  ELSE \A m \in Messages : m # <<>> => last.out.error # m[1]

\* C20: for String min, max, length, email and regex, for every Number
\* check and for Array min, max and length, a custom message given to the
\* builder is exactly the reason of the failure when that check is the one
\* that fails, and it is the reason of no other check's failure.
C20_CustomMessageIsReason ==
  FailedByCheck({"ZodString", "ZodNumber", "ZodArray"}) => ReasonIsOwnMessage

\* the same statement for the String and the Number checks alone
C20_StringAndNumberMessages ==
  FailedByCheck({"ZodString", "ZodNumber"}) => ReasonIsOwnMessage

\* a String or Number check with a custom message has failed
C20_MessageUsed ==
  /\ FailedByCheck({"ZodString", "ZodNumber"})
  /\ FailingCheck.message # <<>>
  /\ Len(LastChecks) = 2

-----------------------------------------------------------------------------
(***************************************************************************)
(* The type gates of ZodObject._parse: Object schemas of the empty shape   *)
(* and of the shape {a}, under every extra-key policy, validate values of  *)
(* every gated kind.                                                       *)
(***************************************************************************)
GateShapes == {<<>>} \cup {<<Prop("a", h)>> : h \in OfKind("ZodString")}

GateInputs ==
  {Null, Arr(<<>>), Arr(<<Str("a")>>), Arr(<<Sym>>),
   PromiseV,
   Obj(<<Prop("then", Fn), Prop("catch", Fn)>>),
   Obj(<<Prop("then", Fn), Prop("catch", Fn), Prop("toString", Num(Whole(1)))>>),
   Obj(<<Prop("then", Fn)>>),
   Obj(<<Prop("a", Str("x"))>>),
   RegExpV, DateV, SetV, MapV,
   Num(Whole(1)), Str("a"), Bool(TRUE), Undefined}

NextGates ==
  \/ ZodString_create /\ Bounded
  \/ \E shape \in GateShapes : ZodObject_create(shape) /\ Bounded
  \/ \E h \in OfKind("ZodObject") : ZodObject_passthrough(h) /\ Bounded
  \/ \E h \in OfKind("ZodObject") : ZodObject_strict(h) /\ Bounded
  \/ \E h \in OfKind("ZodObject") : ZodObject_strip(h) /\ Bounded
  \/ \E h \in Handles, v \in GateInputs : Call_safeParse(h, v)

SpecGates == Init /\ [][NextGates]_vars

\* a value with callable then and catch
Thenable(v) ==
  /\ typeOf(v) = "object" /\ v # Null
  /\ IsCallableProperty(v, "then") /\ IsCallableProperty(v, "catch")

\* the end of the reason of the earliest gate that v matches, in the order
\* null, list, thenable, regular expression, date, set, map; "" if v is an
\* object that matches none
GateSuffix(v) ==
  CASE v.t = "null" -> " is null"
    [] v.t = "array" -> " is an array"
    [] typeOf(v) = "object" /\ v.t \notin {"null", "array"} /\ Thenable(v) ->
         " is promise"
    [] v.t = "regexp" -> " is a regex"
    [] v.t = "date" -> " is an date"
    [] v.t = "set" -> " is an set"
    [] v.t = "map" -> " is an map"
    [] v.t \in {"number", "string", "boolean", "undefined"} ->
         " is not an object"
    [] OTHER -> ""

\* the latest call was safeParse on an Object schema of a gated value
GatedValueParsed ==
  /\ last.op = "safeParse"
  /\ heap[last.recv].kind = "ZodObject"
  /\ GateSuffix(last.data) # ""

EndsWith(s, suffix) ==
  /\ Len(s) >= Len(suffix)
  /\ SubSeq(s, Len(s) - Len(suffix) + 1, Len(s)) = suffix

\* C21: for every shape and every extra-key policy an Object schema rejects
\* null, lists, values with callable then and catch, regular expressions,
\* dates, sets, maps and the non-object values number, string, boolean and
\* undefined, with the reason of the earliest gate the value matches.
C21_TypeGatesReject ==
  GatedValueParsed =>
    /\ Failed(last.out)
    /\ EndsWith(last.out.error, GateSuffix(last.data))

\* the same for the values that have a string form
C21_PrintableValues ==
  GatedValueParsed /\ CanStr(last.data) =>
    /\ Failed(last.out)
    /\ last.out.error = ToStr(last.data) \o GateSuffix(last.data)

\* a thenable record was turned away by a strict schema of the empty shape
C21_ThenableRejected ==
  /\ GatedValueParsed
  /\ last.data.t = "object"
  /\ CanStr(last.data)
  /\ shapes[heap[last.recv].shape] = <<>>
  /\ heap[last.recv].extraKeyStrategy = "strict"

-----------------------------------------------------------------------------
(***************************************************************************)
(* The order of the checks.  One String or Number schema gets up to three  *)
(* checks, trim among them, and validates values that fail none, one or    *)
(* several of the checks.                                                  *)
(***************************************************************************)
MaxOrderSchemas == 4
OrderBounded == Len(heap') <= MaxOrderSchemas

OrderInputs ==
  {Str("a"), Str(" a b "), Str("abcd"), Str("a@b.co"),
   Num(Whole(3)), Num(Dec(75, 1)), Num(Whole(10)), Undefined}

NextOrder ==
  \/ ZodString_create /\ Len(heap) = 0
  \/ ZodNumber_create /\ Len(heap) = 0
  \/ \E h \in OfKind("ZodString") :
       ZodString_min(h, Whole(2), <<>>) /\ OrderBounded
  \/ \E h \in OfKind("ZodString") :
       ZodString_max(h, Whole(3), <<>>) /\ OrderBounded
  \/ \E h \in OfKind("ZodString") : ZodString_email(h, <<>>) /\ OrderBounded
  \/ \E h \in OfKind("ZodString") : ZodString_trim(h, <<>>) /\ OrderBounded
  \/ \E h \in OfKind("ZodNumber") :
       ZodNumber_gt(h, Whole(5), <<>>) /\ OrderBounded
  \/ \E h \in OfKind("ZodNumber") :
       ZodNumber_lte(h, Whole(7), <<>>) /\ OrderBounded
  \/ \E h \in OfKind("ZodNumber") : ZodNumber_int(h, <<>>) /\ OrderBounded
  \/ \E h \in OfKind("ZodNumber") :
       ZodNumber_multipleOf(h, Whole(5), <<>>) /\ OrderBounded
  \/ \E h \in Handles, v \in OrderInputs : Call_safeParse(h, v)

SpecOrder == Init /\ [][NextOrder]_vars

\* _parse of the latest call's schema and value, were its check list checks
ParseWith(checks) ==
  IF heap[last.recv].kind = "ZodString"
  THEN ZodString_parse(checks, last.data)
  ELSE ZodNumber_parse(checks, last.data)

\* the latest call was safeParse, on a String or Number schema, of a value
\* that passes the type gate
CheckedValueParsed ==
  /\ last.op = "safeParse"
  /\ heap[last.recv].kind \in {"ZodString", "ZodNumber"}
  /\ typeOf(last.data) =
       (IF heap[last.recv].kind = "ZodString" THEN "string" ELSE "number")

\* the indices of the checks that no trim check precedes and that, alone,
\* reject the value of the latest call
FailingChecks ==
  {i \in 1..Len(LastChecks) :
     /\ \A j \in 1..(i - 1) : LastChecks[j].kind # "trim"
     /\ ~ParseWith(<<LastChecks[i]>>).isValid}

EarliestFailing == CHOOSE i \in FailingChecks : \A j \in FailingChecks : i <= j

\* C22: a value that passes the type gate of a String or Number schema
\* fails exactly when some check not preceded by a trim check fails on it;
\* the reason is then the one of the earliest appended failing check, and
\* it is the same whatever checks follow that one.
C22_ChecksInAppendOrder ==
  CheckedValueParsed =>
    /\ Failed(last.out) <=> FailingChecks # {}
    /\ FailingChecks # {} =>
         /\ <<last.out.error>> = ParseWith(<<LastChecks[EarliestFailing]>>).reason
         /\ <<last.out.error>> =
              ParseWith(SubSeq(LastChecks, 1, EarliestFailing)).reason

\* a value failed two checks that give different reasons
C22_Witness ==
  /\ CheckedValueParsed
  /\ \E i, j \in FailingChecks :
       /\ i < j
       /\ ParseWith(<<LastChecks[i]>>) # ParseWith(<<LastChecks[j]>>)

\* a check that the value violates follows a trim check, and a failing one
\* precedes it
C22_AfterTrimReached ==
  /\ CheckedValueParsed
  /\ FailingChecks # {}
  /\ \E j \in 1..Len(LastChecks) :
       /\ j \notin FailingChecks
       /\ ~ParseWith(<<LastChecks[j]>>).isValid

-----------------------------------------------------------------------------
(***************************************************************************)
(* Families of handles.  String, Number and Array schemas are created,     *)
(* several of a kind too, and checks are appended through any handle.      *)
(***************************************************************************)
MaxFamilySchemas == 4
FamilyBounded == Len(heap') <= MaxFamilySchemas

FamilyInputs == {Str("a"), Str("abc"), Num(Whole(3)), Num(Whole(10)),
                 Arr(<<>>), Arr(<<Str("abc")>>)}

NextFamilies ==
  \/ ZodString_create /\ FamilyBounded
  \/ ZodNumber_create /\ FamilyBounded
  \/ \E h \in OfKind("ZodString") : ZodArray_create(h) /\ FamilyBounded
  \/ \E h \in OfKind("ZodString") :
       ZodString_min(h, Whole(2), <<>>) /\ FamilyBounded
  \/ \E h \in OfKind("ZodString") :
       ZodString_max(h, Whole(2), <<>>) /\ FamilyBounded
  \/ \E h \in OfKind("ZodNumber") :
       ZodNumber_gt(h, Whole(5), <<>>) /\ FamilyBounded
  \/ \E h \in OfKind("ZodNumber") : ZodNumber_int(h, <<>>) /\ FamilyBounded
  \/ \E h \in OfKind("ZodArray") :
       ZodArray_min(h, Whole(1), <<>>) /\ FamilyBounded
  \/ \E h \in OfKind("ZodArray") : ZodArray_nonempty(h) /\ FamilyBounded

SpecFamilies == Init /\ [][NextFamilies]_vars

\* the handles that hold the check list l
Holders(l) == {h \in Handles : heap[h].checks = l}

\* the step is a create(): the new handle holds a new, empty check list,
\* which no handle held before, and every other list is as it was
CreatedFamily ==
  LET l == heap'[last'.ret].checks IN
  /\ l = Len(lists) + 1
  /\ Holders(l) = {}
  /\ lists' = Append(lists, <<>>)
  /\ \A h \in Handles : heap'[h] = heap[h]

\* the step is a builder call on recv: the new handle holds recv's list;
\* a check is appended at the end of that list, or none for nonempty();
\* the list of every handle of the family is that extended list, and the
\* lists of the other families are as they were
JoinedFamily ==
  LET l == heap[last'.recv].checks IN
  /\ heap'[last'.ret].checks = l
  /\ \A h \in Handles : heap'[h] = heap[h]
  /\ IF last'.op = "nonempty" THEN lists'[l] = lists[l]
     ELSE /\ Len(lists'[l]) = Len(lists[l]) + 1
          /\ SubSeq(lists'[l], 1, Len(lists[l])) = lists[l]
  /\ \A i \in 1..Len(lists) : i # l => lists'[i] = lists[i]
  /\ Len(lists') = Len(lists)
  /\ \A h \in Holders(l), v \in FamilyInputs :
       heap[h].kind # "ZodArray" =>
         safeParse(StoreNext, h, v) = safeParse(StoreNext, last'.ret, v)

\* C23: every handle made from a handle by a check-appending builder call,
\* or by nonempty() of an Array, holds the check list of that handle, the
\* one its create() made; a builder call appends its check at the end of the
\* list, so every handle of the family evaluates it, and it changes no list
\* of another family; create() makes an empty list no other handle holds.
C23_FamiliesShareOneList ==
  [][/\ last'.op \in {"string", "number", "z.array"} => CreatedFamily
     /\ last'.op \in {"min", "max", "gt", "int", "nonempty"} => JoinedFamily]_vars

\* the first handle of a String family of three fails on a value by the
\* second check, which was appended through another handle
C23_Witness ==
  /\ Len(heap) >= 3
  /\ heap[1].kind = "ZodString"
  /\ Holders(heap[1].checks) = {1, 2, 3}
  /\ last.recv = 2
  /\ Len(lists[heap[1].checks]) = 2
  /\ \E v \in FamilyInputs :
       /\ Failed(safeParse(Store, 1, v))
       /\ Succeeded(safeParse(
            [Store EXCEPT !.lists[heap[1].checks] = SubSeq(@, 1, 1)], 1, v))

\* a nonempty Array schema shares the checks appended through its origin
C23_NonemptyReached ==
  /\ last.op = "min"
  /\ \E h \in Holders(heap[last.recv].checks) :
       /\ heap[h].kind = "ZodArray"
       /\ heap[h].nonempty
       /\ h # last.ret
       /\ ~heap[last.recv].nonempty

\* two families of one kind exist, with different check lists
C23_TwoFamiliesReached ==
  \E h, g \in OfKind("ZodNumber") :
    /\ heap[h].checks # heap[g].checks
    /\ lists[heap[h].checks] # <<>>
    /\ lists[heap[g].checks] = <<>>

-----------------------------------------------------------------------------
(***************************************************************************)
(* trim, under SpecOrder.                                                  *)
(***************************************************************************)
\* the index of the first trim check of the latest call's schema, 0 if none
FirstTrim ==
  LET trims == {i \in 1..Len(LastChecks) : LastChecks[i].kind = "trim"}
  IN IF trims = {} THEN 0 ELSE CHOOSE i \in trims : \A j \in trims : i <= j

\* r is s without the whitespace at its two ends
IsTrimmedFormOf(r, s) ==
  \E i \in 1..(Len(s) + 1), j \in 0..Len(s) :
    /\ r = SubSeq(s, i, j)
    /\ \A k \in 1..(i - 1) : IsSpace(Ch(s, k))
    /\ \A k \in (j + 1)..Len(s) : IsSpace(Ch(s, k))
    /\ r # "" => ~IsSpace(Ch(r, 1)) /\ ~IsSpace(Ch(r, Len(r)))

\* the latest call was safeParse of a string on a String schema that has a
\* trim check
TrimmingParsed ==
  /\ last.op = "safeParse"
  /\ heap[last.recv].kind = "ZodString"
  /\ last.data.t = "string"
  /\ FirstTrim # 0

\* C24: a String schema with a trim check accepts every string that passes
\* the checks appended before the trim, which see the untrimmed string; the
\* data is then the string without the whitespace at its ends, whatever
\* checks follow the trim.
C24_TrimIsTerminal ==
  TrimmingParsed =>
    IF ParseWith(SubSeq(LastChecks, 1, FirstTrim - 1)).isValid
    THEN /\ Succeeded(last.out)
         /\ last.out.data.t = "string"
         /\ IsTrimmedFormOf(last.out.data.s, last.data.s)
    ELSE Failed(last.out)

\* a string with whitespace at both ends was accepted although it violates
\* a check that follows the trim
C24_Witness ==
  /\ TrimmingParsed
  /\ Succeeded(last.out)
  /\ last.out.data # last.data
  /\ \E j \in (FirstTrim + 1)..Len(LastChecks) :
       ~ParseWith(<<LastChecks[j]>>).isValid

\* a string failed a check before the trim that its trimmed form passes
C24_UntrimmedReached ==
  /\ TrimmingParsed
  /\ Failed(last.out)
  /\ LET trimmed == Str(Trim(last.data.s)) IN
       ZodString_parse(SubSeq(LastChecks, 1, FirstTrim - 1), trimmed).isValid

-----------------------------------------------------------------------------
(***************************************************************************)
(* ZodArray._parse.  One Array schema of strings gets the nonempty flag    *)
(* and up to three length checks, through any of its handles, and          *)
(* validates lists that violate the length checks, the element schema, or  *)
(* both, and values that are no lists.                                     *)
(***************************************************************************)
MaxArraySchemas == 5
ArrayBounded == Len(heap') <= MaxArraySchemas

ArrayInputs ==
  {Arr(<<>>), Arr(<<Str("a")>>), Arr(<<Str("a"), Str("b")>>),
   Arr(<<Str("a"), Str("b"), Str("c")>>),
   Arr(<<Num(Whole(1))>>), Arr(<<Str("a"), Num(Whole(1)), Undefined>>),
   Arr(<<Sym>>),
   Str("a"), Undefined, Obj(<<>>)}

NextArray ==
  \/ ZodString_create /\ Len(heap) = 0
  \/ ZodArray_create(1) /\ Len(heap) = 1
  \/ \E h \in OfKind("ZodArray") : ZodArray_nonempty(h) /\ ArrayBounded
  \/ \E h \in OfKind("ZodArray") :
       ZodArray_min(h, Whole(2), <<>>) /\ ArrayBounded
  \/ \E h \in OfKind("ZodArray") :
       ZodArray_max(h, Whole(2), <<>>) /\ ArrayBounded
  \/ \E h \in OfKind("ZodArray") :
       ZodArray_length(h, Whole(1), <<>>) /\ ArrayBounded
  \/ \E h \in Handles, v \in ArrayInputs : Call_safeParse(h, v)

SpecArray == Init /\ [][NextArray]_vars

\* the latest call was safeParse on an Array schema
ArrayParsed == last.op = "safeParse" /\ heap[last.recv].kind = "ZodArray"

\* the length check is violated by a list of count items
LengthViolated(check, count) ==
  CASE check.kind = "min" -> count < check.value.m
    [] check.kind = "max" -> count > check.value.m
    [] check.kind = "length" -> count # check.value.m

\* the end of the reason of a violated length check
LengthSuffix(check) ==
  CASE check.kind = "min" ->
         "'s length should be greater or equal to " \o NumStr(check.value)
    [] check.kind = "max" ->
         "'s length should be less or equal to " \o NumStr(check.value)
    [] check.kind = "length" -> "'s length should be " \o NumStr(check.value)

\* the length checks the list of the latest call violates, by index
ViolatedLengths ==
  {i \in 1..Len(LastChecks) :
     LengthViolated(LastChecks[i], Len(last.data.items))}

\* the items of the list of the latest call that the element schema does
\* not accept, by index
InvalidItems ==
  {k \in 1..Len(last.data.items) :
     ~Succeeded(safeParse(Store, heap[last.recv].element, last.data.items[k]))}

Least(S) == CHOOSE i \in S : \A j \in S : i <= j

\* the failure causes in the order of the claim: what the latest call has
\* to return
ArrayOutcomeInOrder ==
  IF last.data.t # "array"
  THEN Failed(last.out) /\ EndsWith(last.out.error, " is not an array")
  ELSE IF heap[last.recv].nonempty /\ Len(last.data.items) = 0
  THEN Failed(last.out) /\ EndsWith(last.out.error, " should be non empty")
  ELSE IF ViolatedLengths # {}
  THEN /\ Failed(last.out)
       /\ EndsWith(last.out.error, LengthSuffix(LastChecks[Least(ViolatedLengths)]))
  ELSE IF InvalidItems # {}
  THEN last.out = safeParse(Store, heap[last.recv].element,
                            last.data.items[Least(InvalidItems)])
  ELSE Succeeded(last.out) /\ last.out.data = last.data

\* C25: Array validation fails on a value that is no list; then on an empty
\* list if the nonempty flag is set; then on the first length check in
\* append order that the count violates; then on the first element in
\* index order that the element schema rejects; a list is accepted exactly
\* when none of these applies, and a list that violates a length check and
\* has an invalid element fails with the reason of the length check.
C25_ArrayCausesInOrder == ArrayParsed => ArrayOutcomeInOrder

\* the same for the values that have a string form
C25_PrintableValues == ArrayParsed /\ CanStr(last.data) => ArrayOutcomeInOrder

\* a printable list violated a length check and held an invalid element
C25_BothCausesReached ==
  /\ ArrayParsed
  /\ last.data.t = "array"
  /\ CanStr(last.data)
  /\ ViolatedLengths # {}
  /\ InvalidItems # {}
  /\ Len(LastChecks) >= 2

-----------------------------------------------------------------------------
(***************************************************************************)
(* Nested failures.  Array and Object schemas over String schemas, and     *)
(* over one another, validate lists and records with one or several        *)
(* invalid children.                                                       *)
(***************************************************************************)
MaxNestedSchemas == 4
NestedBounded == Len(heap') <= MaxNestedSchemas

NestedShapes ==
  {<<Prop("a", h), Prop("b", g)>> :
     h \in OfKind("ZodString"), g \in OfKind("ZodString")}

NestedInputs ==
  {Arr(<<Str("ab"), Str("c"), Num(Whole(1))>>),
   Arr(<<Num(Whole(1)), Str("c")>>),
   Arr(<<Str("ab")>>),
   Arr(<<Str("c"), Sym>>),
   Arr(<<Sym, Str("c")>>),
   Obj(<<Prop("a", Str("c")), Prop("b", Num(Whole(1)))>>),
   Obj(<<Prop("b", Num(Whole(1))), Prop("a", Str("c"))>>),
   Obj(<<Prop("a", Str("ab")), Prop("b", Str("cd"))>>),
   Obj(<<Prop("a", Str("c")), Prop("b", Sym)>>),
   Obj(<<Prop("b", Sym), Prop("a", Str("c"))>>),
   Obj(<<Prop("c", Null), Prop("b", Num(Whole(1))), Prop("a", Str("c"))>>),
   Arr(<<Obj(<<Prop("a", Str("ab")), Prop("b", Str("cd"))>>),
         Obj(<<Prop("b", Str("cd")), Prop("a", Str("c"))>>)>>)}

NextNested ==
  \/ ZodString_create /\ Len(heap) = 0
  \/ \E h \in OfKind("ZodString") :
       ZodString_min(h, Whole(2), <<>>) /\ NestedBounded
  \/ \E h \in Handles : ZodArray_create(h) /\ NestedBounded
  \/ \E shape \in NestedShapes : ZodObject_create(shape) /\ NestedBounded
  \/ \E h \in OfKind("ZodObject") : ZodObject_passthrough(h) /\ NestedBounded
  \/ \E h \in OfKind("ZodArray") \cup OfKind("ZodObject"), v \in NestedInputs :
       Call_safeParse(h, v)

SpecNested == Init /\ [][NextNested]_vars

\* the result of validating the child value v against the child schema h
Child(h, v) == safeParse(Store, h, v)

\* the latest call was safeParse on an Array schema and it failed on a list
\* that the nonempty flag and the length checks let through: it failed
\* because an element is invalid
ArrayFailedByElement ==
  /\ ArrayParsed
  /\ Failed(last.out)
  /\ last.data.t = "array"
  /\ ~(heap[last.recv].nonempty /\ Len(last.data.items) = 0)
  /\ ViolatedLengths = {}

\* the latest call was safeParse on an Object schema and it failed on a
\* record that misses no declared field and has no extra key a strict
\* schema turns away: it failed because a field's value is invalid
ObjectFailedByField ==
  /\ ObjectParsed
  /\ Failed(last.out)
  /\ FirstMissing(Keys(LastShape), last.data) = 0
  /\ ~(/\ LastPolicy = "strict"
       /\ ExtraKeys(Keys(LastShape), last.data.fields) # <<>>)

\* the fields of the record of the latest call that are declared and whose
\* value the field's schema does not accept, by index in the record
InvalidFields ==
  {k \in 1..Len(last.data.fields) :
     /\ HasOwn(LastShape, last.data.fields[k].key)
     /\ ~Succeeded(Child(LastShape[Get(LastShape, last.data.fields[k].key)].val,
                         last.data.fields[k].val))}

\* C26: when an Array fails because an element is invalid, its outcome is
\* the failure of the first invalid element in index order, reason
\* unchanged; when an Object fails because a declared field's value is
\* invalid, its outcome is the failure of the first invalid declared field
\* in the order of the input record's fields; what follows that child does
\* not matter.
C26_NestedFailuresVerbatim ==
  /\ ArrayFailedByElement =>
       /\ InvalidItems # {}
       /\ last.out = Child(heap[last.recv].element,
                           last.data.items[Least(InvalidItems)])
       /\ last.out = safeParse(Store, last.recv,
                       Arr(SubSeq(last.data.items, 1, Least(InvalidItems))))
  /\ ObjectFailedByField =>
       /\ InvalidFields # {}
       /\ LET k == Least(InvalidFields)
              key == last.data.fields[k].key
          IN /\ last.out = Child(LastShape[Get(LastShape, key)].val,
                                 last.data.fields[k].val)
             /\ last.out = safeParse(Store, last.recv,
                             Obj(SubSeq(last.data.fields, 1, k)
                                   \o SelectSeq(SubSeq(last.data.fields, k + 1,
                                                       Len(last.data.fields)),
                                        LAMBDA f : HasOwn(LastShape, f.key))))

\* a record failed with the reason of its first invalid field, which the
\* shape declares after another field that is invalid too
C26_Witness ==
  /\ ObjectFailedByField
  /\ \E k, j \in InvalidFields :
       /\ k < j
       /\ Get(LastShape, last.data.fields[k].key)
            > Get(LastShape, last.data.fields[j].key)
       /\ Child(LastShape[Get(LastShape, last.data.fields[k].key)].val,
                last.data.fields[k].val)
            # Child(LastShape[Get(LastShape, last.data.fields[j].key)].val,
                    last.data.fields[j].val)

\* a list failed with the reason of its first invalid element, and a later
\* element is invalid for another reason
C26_ElementReached ==
  /\ ArrayFailedByElement
  /\ \E k, j \in InvalidItems :
       /\ k < j
       /\ Child(heap[last.recv].element, last.data.items[k])
            # Child(heap[last.recv].element, last.data.items[j])

\* a list of records failed with the reason of a field of one of them
C26_TwoLevelsReached ==
  /\ ArrayFailedByElement
  /\ heap[heap[last.recv].element].kind = "ZodObject"
  /\ last.out.error = "c should be at least 2 characters"

-----------------------------------------------------------------------------
(***************************************************************************)
(* The value sets of Enum schemas.  Enum schemas come from enum(list) and  *)
(* from keyof() of the Object schemas that object and the combinators      *)
(* give.                                                                   *)
(***************************************************************************)
MaxEnumSetSchemas == 5
EnumSetBounded == Len(heap') <= MaxEnumSetSchemas

EnumSetShapes ==
  {<<Prop("a", h)>> : h \in OfKind("ZodString")}
    \cup {<<Prop("a", h), Prop("b", h)>> : h \in OfKind("ZodString")}

NextEnumSets ==
  \/ ZodString_create /\ Len(heap) = 0
  \/ ZodEnum_create(<<"a", "b">>) /\ EnumSetBounded
  \/ \E shape \in EnumSetShapes : ZodObject_create(shape) /\ EnumSetBounded
  \/ \E h \in Handles : ZodObject_keyof(h) /\ EnumSetBounded
  \/ \E h \in Handles, shape \in EnumSetShapes :
       ZodObject_extend(h, shape) /\ EnumSetBounded
  \/ \E h \in Handles, g \in Handles : ZodObject_merge(h, g) /\ EnumSetBounded
  \/ \E h \in Handles, mask \in Masks :
       ZodObject_pick(h, mask) /\ EnumSetBounded
  \/ \E h \in Handles, mask \in Masks :
       ZodObject_omit(h, mask) /\ EnumSetBounded
  \/ \E h \in Handles, mask \in OptionalMasks :
       ZodObject_partial(h, mask) /\ EnumSetBounded
  \/ \E h \in Handles, mask \in OptionalMasks :
       ZodObject_required(h, mask) /\ EnumSetBounded

SpecEnumSets == Init /\ [][NextEnumSets]_vars

\* C27: every Enum schema that enum(list) and keyof() give has a non-empty
\* list of allowed values, and no later call changes the list.
C27_EnumSetsNonEmptyAndFixed ==
  [][/\ \A h \in 1..Len(heap') :
          heap'[h].kind = "ZodEnum" => heap'[h].values # <<>>
     /\ \A h \in OfKind("ZodEnum") : heap'[h] = heap[h]]_vars

\* the list of allowed values of an Enum schema is never changed
C27_EnumSetsFixed ==
  [][\A h \in OfKind("ZodEnum") : heap'[h] = heap[h]]_vars

\* a call was made while Enum schemas of enum(list) and of keyof() existed
C27_LaterCallReached ==
  /\ \E h, g \in OfKind("ZodEnum") : h < g /\ heap[h].values # heap[g].values
  /\ last.op \in {"omit", "merge", "extend"}

-----------------------------------------------------------------------------
(***************************************************************************)
(* Validation as a function of the schema and the value.  String schemas   *)
(* with min and trim checks, alone and inside Optional, Array and Object   *)
(* schemas, validate values through safeParse and parse.                   *)
(***************************************************************************)
MaxPureSchemas == 4
PureBounded == Len(heap') <= MaxPureSchemas

PureInputs ==
  {Str("a"), Str(" hello "), Undefined, Num(Whole(1)),
   Arr(<<Str("ab"), Str(" hello")>>), Arr(<<Num(Whole(1)), Str("ab")>>),
   Obj(<<Prop("a", Str("ab"))>>), Obj(<<Prop("b", Null)>>)}

NextPure ==
  \/ ZodString_create /\ Len(heap) = 0
  \/ \E h \in OfKind("ZodString") :
       ZodString_min(h, Whole(2), <<>>) /\ PureBounded
  \/ \E h \in OfKind("ZodString") : ZodString_trim(h, <<>>) /\ PureBounded
  \/ \E h \in Handles : ZodType_optional(h) /\ PureBounded
  \/ \E h \in Handles : ZodType_array(h) /\ PureBounded
  \/ \E h \in OfKind("ZodString") :
       ZodObject_create(<<Prop("a", h)>>) /\ PureBounded
  \/ \E h \in Handles, v \in PureInputs : Call_safeParse(h, v)
  \/ \E h \in Handles, v \in PureInputs : Call_parse(h, v)

SpecPure == Init /\ [][NextPure]_vars

Validations == {"safeParse", "parse"}

\* the call of the step is a validation that leaves every schema, every
\* check list and every shape as it was
LeavesSchemasAlone ==
  last'.op \in Validations =>
    heap' = heap /\ lists' = lists /\ shapes' = shapes

\* the call of the step repeats the validation before it, and gives the
\* same result
RepeatsResult ==
  /\ last'.op \in Validations /\ last.op = last'.op
  /\ last'.recv = last.recv /\ last'.data = last.data
  => last'.out = last.out

\* C28: parse and safeParse write nothing to the outside, change no
\* schema's definition and no check list, and give for the same schema and
\* the same value the same result whatever was validated before.
C28_ValidationIsPure ==
  [][/\ LeavesSchemasAlone
     /\ RepeatsResult
     /\ last'.op \in Validations => last'.console = <<>>]_vars

\* the same without the clause on the console
C28_SchemasAndResults == [][LeavesSchemasAlone /\ RepeatsResult]_vars

\* the String schemas with a trim check that no invalid check precedes are
\* the only ones that write
C28_OnlyTrimWrites ==
  last.op \in Validations /\ last.console # <<>> =>
    \E h \in OfKind("ZodString") :
      \E i \in 1..Len(lists[heap[h].checks]) :
        lists[heap[h].checks][i].kind = "trim"

\* a list of strings was validated by an Array of trimming strings, and
\* each element wrote a line
C28_TwoLinesReached ==
  /\ last.op = "parse"
  /\ heap[last.recv].kind = "ZodArray"
  /\ Len(last.console) = 2

-----------------------------------------------------------------------------
(***************************************************************************)
(* The data of a success.  Array, Object, Optional and Nullable schemas    *)
(* are built over a String schema, which gets a trim check before or after *)
(* them, and every schema validates values with whitespace around the      *)
(* strings.                                                                *)
(***************************************************************************)
MaxVerbatimSchemas == 4
VerbatimBounded == Len(heap') <= MaxVerbatimSchemas

VerbatimInputs ==
  {Str(" a "), Undefined, Null,
   Arr(<<Str(" a "), Str("b")>>),
   Arr(<<Undefined, Str(" a ")>>),
   Obj(<<Prop("a", Str(" a "))>>),
   Obj(<<Prop("c", Num(Whole(1))), Prop("a", Str(" a "))>>),
   Arr(<<Obj(<<Prop("a", Str(" a "))>>)>>)}

NextVerbatim ==
  \/ ZodString_create /\ Len(heap) = 0
  \/ \E h \in OfKind("ZodString") : ZodString_trim(h, <<>>) /\ VerbatimBounded
  \/ \E h \in Handles : ZodType_optional(h) /\ VerbatimBounded
  \/ \E h \in Handles : ZodType_nullable(h) /\ VerbatimBounded
  \/ \E h \in Handles : ZodType_array(h) /\ VerbatimBounded
  \/ \E h \in Handles : ZodObject_create(<<Prop("a", h)>>) /\ VerbatimBounded
  \/ \E h \in OfKind("ZodObject") : ZodObject_passthrough(h) /\ VerbatimBounded

SpecVerbatim == Init /\ [][NextVerbatim]_vars

\* every field of the record out is a field of the record in, with the
\* value it has there
FieldsFrom(out, in) ==
  /\ out.t = "object"
  /\ \A i \in 1..Len(out.fields) :
       /\ HasOwn(in.fields, out.fields[i].key)
       /\ out.fields[i].val = in.fields[Get(in.fields, out.fields[i].key)].val

\* what the claim says of the data of a success of schema h on value v
DataAsClaimed(h, v) ==
  LET out == safeParse(Store, h, v) IN
  Succeeded(out) =>
    CASE heap[h].kind = "ZodArray" -> out.data = v
      [] heap[h].kind = "ZodObject" -> FieldsFrom(out.data, v)
      [] heap[h].kind = "ZodOptional" /\ v # Undefined ->
           out.data = safeParse(Store, heap[h].innerType, v).data
      [] heap[h].kind = "ZodNullable" /\ v # Null ->
           out.data = safeParse(Store, heap[h].innerType, v).data
      [] OTHER -> TRUE

\* C29: on success an Array schema returns the elements of the input,
\* unchanged and in their order, and an Object schema returns for each kept
\* field the value the input has for it, not the data of the element or
\* field schema; Optional and Nullable return the data of the inner schema.
C29_CompositesReturnInput ==
  \A h \in Handles, v \in VerbatimInputs : DataAsClaimed(h, v)

\* an Array of trimming strings returns a string with its whitespace, and
\* an Optional of the same String schema returns it trimmed
C29_Witness ==
  \E h \in OfKind("ZodArray"), g \in OfKind("ZodOptional") :
    /\ heap[h].element = heap[g].innerType
    /\ safeParse(Store, h, Arr(<<Str(" a "), Str("b")>>))
         = [success |-> TRUE, data |-> Arr(<<Str(" a "), Str("b")>>)]
    /\ safeParse(Store, g, Str(" a ")) = [success |-> TRUE, data |-> Str("a")]

\* a passthrough Object schema returns the untrimmed value of its field
C29_ObjectReached ==
  \E h \in OfKind("ZodObject") :
    /\ heap[h].extraKeyStrategy = "passthrough"
    /\ Succeeded(safeParse(Store, h,
         Obj(<<Prop("c", Num(Whole(1))), Prop("a", Str(" a "))>>)))
    /\ safeParse(Store, shapes[heap[h].shape][1].val, Str(" a ")).data = Str("a")

-----------------------------------------------------------------------------
(***************************************************************************)
(* The extra-key policy along a chain of combinator calls, under           *)
(* SpecCombinators.                                                        *)
(***************************************************************************)
PolicySetters == {"passthrough", "strict", "strip"}
PolicyKeepers == {"extend", "merge", "pick", "omit", "partial", "required"}

\* C30: object(shape) gives a schema of policy strip; passthrough(),
\* strict() and strip() give one of the policy they name; extend, merge,
\* pick, omit, partial and required give one of the receiver's policy,
\* merge whatever the policy of its argument.  So the policy at the end of
\* a chain is that of the last passthrough(), strict() or strip() in it, or
\* strip.
C30_PolicyAlongChain ==
  [][/\ last'.op = "object" =>
          heap'[last'.ret].extraKeyStrategy = "strip"
     /\ last'.op \in PolicySetters =>
          heap'[last'.ret].extraKeyStrategy = last'.op
     /\ last'.op \in PolicyKeepers =>
          heap'[last'.ret].extraKeyStrategy
            = heap[last'.recv].extraKeyStrategy]_vars

\* merge was called on a strict schema while a passthrough schema existed,
\* and the result is strict
C30_Witness ==
  /\ last.op = "merge"
  /\ heap[last.recv].extraKeyStrategy = "strict"
  /\ heap[last.ret].extraKeyStrategy = "strict"
  /\ \E g \in OfKind("ZodObject") :
       g < last.ret /\ heap[g].extraKeyStrategy = "passthrough"

\* a passthrough schema was cut down by omit, and the result is passthrough
C30_KeeperReached ==
  /\ last.op = "omit"
  /\ heap[last.ret].extraKeyStrategy = "passthrough"

====
